---- MODULE Spec2Model ----
(***************************************************************************)
(* A model of sma.py: the SMA data packet framing (DataPacket), the net 2  *)
(* envelope (Net2DataPacket), the device data packet (DeviceDataPacket),   *)
(* discovery (detect_inverters) and the device session (Inverter).         *)
(*                                                                         *)
(* Bytes objects are sequences over 0..255.  Python integers that can      *)
(* leave the range of a 31-bit number (serials, parameters, timestamps,    *)
(* counters) are "wide" integers: a sign and four 16-bit words, least      *)
(* significant first, so that struct's 32- and 64-bit formats keep their   *)
(* width.  None is Null; an exception is a record [exc, msg].              *)
(***************************************************************************)
EXTENDS Integers, Sequences, FiniteSets, TLC

VARIABLES
    PacketId,    \* DeviceDataPacket.PacketId, the class-level counter
    inbox,       \* datagrams readable on the multicast socket, oldest first
    sent,        \* datagrams the current call has handed to sock.send, in order
    nrecv,       \* sock.recv calls the current call has made
    now,         \* time.time(), in ticks
    pc,          \* position of the single thread: the call in progress
    self,        \* the Inverter the call in progress runs on
    loc,         \* the local variables of the call in progress
    ret,         \* outcome of the last finished call
    sessions,    \* the Inverter objects of the process
    auth,        \* per Inverter, what its logins and logouts have come to
    unit_list,   \* DataPacket.units of the packet on the bench
    dev,         \* the DeviceDataPacket on the bench
    wire,        \* the bytes last produced by a get_data() on the bench
    got          \* the object last built from bytes on the bench

vars == <<PacketId, inbox, sent, nrecv, now, pc, self, loc, ret, sessions,
          auth, unit_list, dev, wire, got>>

(***************************************************************************)
(* Bytes, None, exceptions                                                 *)
(***************************************************************************)
Byte == 0..255

Null == [isNone |-> TRUE, v |-> <<>>]

Some(b) == [isNone |-> FALSE, v |-> b]

Raise(e, m) == [exc |-> e, msg |-> m]

NoExc == Raise("", "")

\* data[a:b] of Python, 0-based and clipped to the sequence
Slice(s, a, b) ==
    LET hi == IF b > Len(s) THEN Len(s) ELSE b
    IN  IF a >= hi THEN <<>> ELSE SubSeq(s, a + 1, hi)

(***************************************************************************)
(* struct formats                                                          *)
(***************************************************************************)
Wide(neg, w0, w1, w2, w3) == [neg |-> neg, w |-> <<w0, w1, w2, w3>>]

\* the wide integer of a number that fits the model checker's integers
W(n) ==
    LET a == IF n < 0 THEN 0 - n ELSE n
    IN  Wide(n < 0, a % 65536, a \div 65536, 0, 0)

WordBytesLE(x) == <<x % 256, x \div 256>>

WordBytesBE(x) == <<x \div 256, x % 256>>

FitsB(n) == n >= 0 /\ n <= 255

FitsH(n) == n >= 0 /\ n <= 65535

\* 0 <= x < 2^32
FitsL(x) == ~x.neg /\ x.w[3] = 0 /\ x.w[4] = 0

\* -2^31 <= x < 2^31
Fitsl(x) ==
    /\ x.w[3] = 0 /\ x.w[4] = 0
    /\ IF x.neg THEN x.w[2] < 32768 \/ (x.w[2] = 32768 /\ x.w[1] = 0)
                ELSE x.w[2] < 32768

\* the two words of 2^32 - m for 0 < m <= 2^32 given as two words
Complement32(lo, hi) ==
    IF lo = 0 THEN <<0, (65536 - hi) % 65536>>
              ELSE <<65536 - lo, 65535 - hi>>

\* struct.pack("<L", x)
PackL(x) == WordBytesLE(x.w[1]) \o WordBytesLE(x.w[2])

\* struct.pack("<l", x): two's complement
Packl(x) ==
    IF x.neg
    THEN LET c == Complement32(x.w[1], x.w[2])
         IN  WordBytesLE(c[1]) \o WordBytesLE(c[2])
    ELSE WordBytesLE(x.w[1]) \o WordBytesLE(x.w[2])

\* struct.unpack_from("<L", b, off)[0]
UnpackL(b, off) ==
    Wide(FALSE, b[off + 1] + 256 * b[off + 2], b[off + 3] + 256 * b[off + 4], 0, 0)

\* struct.unpack_from("<l", b, off)[0]
Unpackl(b, off) ==
    LET lo == b[off + 1] + 256 * b[off + 2]
        hi == b[off + 3] + 256 * b[off + 4]
    IN  IF hi >= 32768
        THEN LET c == Complement32(lo, hi)
             IN  IF lo = 0 /\ hi = 32768 THEN Wide(TRUE, 0, 32768, 0, 0)
                 ELSE Wide(TRUE, c[1], c[2], 0, 0)
        ELSE Wide(FALSE, lo, hi, 0, 0)

\* struct.pack("<Q", x)
PackQ(x) ==
    WordBytesLE(x.w[1]) \o WordBytesLE(x.w[2]) \o WordBytesLE(x.w[3])
        \o WordBytesLE(x.w[4])

\* struct.unpack_from("<Q", b, off)[0]
UnpackQ(b, off) ==
    Wide(FALSE, b[off + 1] + 256 * b[off + 2], b[off + 3] + 256 * b[off + 4],
         b[off + 5] + 256 * b[off + 6], b[off + 7] + 256 * b[off + 8])

\* the byte at a 0-based offset
ByteAt(b, off) == b[off + 1]

\* struct.unpack_from("<H", b, off)[0] and its big-endian form
UnpackH(b, off) == b[off + 1] + 256 * b[off + 2]

UnpackHBE(b, off) == 256 * b[off + 1] + b[off + 2]

(***************************************************************************)
(* DataPacket                                                              *)
(***************************************************************************)
HEADER == <<83, 77, 65, 0>>

TAG_0 == 42

TAG_NET_2 == 1

TAG_END == 0

DEFAULT_GROUP == 1

DataUnit(tag, version, data) == [tag |-> tag, version |-> version, data |-> data]

\* the truth value of a bytes-or-None in "data if data else None"
Truthy(d) == ~d.isNone /\ Len(d.v) > 0

\* DataPacket.add_unit: the unit list after the call
add_unit(units, tag, data, version) ==
    Append(units, DataUnit(tag, version, IF Truthy(data) THEN data ELSE Null))

\* DataPacket.pack_unit(tag, ">L", n) for a new packet's group unit
pack_unit_L(units, tag, n) ==
    add_unit(units, tag, Some(<<0, 0>> \o WordBytesBE(n)), 0)

\* DataPacket.__init__(data=None): the units of a new packet
DataPacket_new == pack_unit_L(<<>>, TAG_0, DEFAULT_GROUP)

\* the mutant of UnitBytes that leaves the version out of the tag word
UnitBytes_noversion(unit) ==
    LET length == IF Truthy(unit.data) THEN Len(unit.data.v) ELSE 0
        tag    == unit.tag * 16
    IN  IF ~FitsH(length) \/ ~FitsH(tag)
        THEN [err |-> Raise("struct.error", "'H' format"), bytes |-> <<>>]
        ELSE [err |-> NoExc,
              bytes |-> WordBytesBE(length) \o WordBytesBE(tag)
                        \o (IF Truthy(unit.data) THEN unit.data.v ELSE <<>>)]

\* the bytes of one unit in DataPacket.get_data, or an exception
UnitBytes(unit) ==
    LET length == IF Truthy(unit.data) THEN Len(unit.data.v) ELSE 0
        tag    == unit.tag * 16 + (unit.version % 16)
    IN  IF ~FitsH(length) \/ ~FitsH(tag)
        THEN [err |-> Raise("struct.error", "'H' format"), bytes |-> <<>>]
        ELSE [err |-> NoExc,
              bytes |-> WordBytesBE(length) \o WordBytesBE(tag)
                        \o (IF Truthy(unit.data) THEN unit.data.v ELSE <<>>)]

RECURSIVE UnitsBytes(_)
UnitsBytes(units) ==
    IF units = <<>> THEN [err |-> NoExc, bytes |-> <<>>]
    ELSE LET h == UnitBytes(Head(units))
         IN  IF h.err # NoExc THEN h
             ELSE LET t == UnitsBytes(Tail(units))
                  IN  IF t.err # NoExc THEN t
                      ELSE [err |-> NoExc, bytes |-> h.bytes \o t.bytes]

\* DataPacket.get_data(extra_unit): extra is a sequence of zero or one unit
DataPacket_get_data(units, extra) ==
    LET r == UnitsBytes(units \o extra \o <<DataUnit(TAG_END, 0, Null)>>)
    IN  IF r.err # NoExc THEN r ELSE [err |-> NoExc, bytes |-> HEADER \o r.bytes]

\* the unit loop of DataPacket.__init__: [units, offset] when the loop ends
RECURSIVE UnpackUnits(_, _, _)
UnpackUnits(data, offset, units) ==
    IF offset + 4 <= Len(data)
    THEN LET length  == UnpackHBE(data, offset)
             tag     == UnpackHBE(data, offset + 2)
             version == tag % 16
             body    == Slice(data, offset + 4, offset + 4 + length)
         IN  UnpackUnits(data, offset + 4 + length,
                         add_unit(units, tag \div 16, Some(body), version))
    ELSE [units |-> units, offset |-> offset]

\* the mutant of EndOffsetOk that accepts bytes left over after the last unit
EndOffsetOk_lenient(offset, n) == TRUE

\* DataPacket.__init__: "if offset != len(data): raise"
EndOffsetOk(offset, n) == offset = n

\* the mutant of DataPacket_end that takes a last unit of tag TAG_END with a
\* payload for the end-unit
DataPacket_end_anypayload(u, n) ==
    IF ~EndOffsetOk(u.offset, n)
    THEN [err |-> Raise("MalformedPacketError", "data unit length missmatch"),
          units |-> <<>>]
    ELSE IF u.units = <<>> \/ u.units[Len(u.units)].tag # TAG_END
         THEN [err |-> Raise("MalformedPacketError", "missing or malformed end tag"),
               units |-> <<>>]
         ELSE [err |-> NoExc, units |-> SubSeq(u.units, 1, Len(u.units) - 1)]

\* DataPacket.__init__(data) after the unit loop: the checks of the offset and
\* of the end tag, and "del self.units[-1]"
DataPacket_end(u, n) ==
    IF ~EndOffsetOk(u.offset, n)
    THEN [err |-> Raise("MalformedPacketError", "data unit length missmatch"),
          units |-> <<>>]
    ELSE IF \/ u.units = <<>>
            \/ u.units[Len(u.units)].tag # TAG_END
            \/ ~u.units[Len(u.units)].data.isNone
         THEN [err |-> Raise("MalformedPacketError", "missing or malformed end tag"),
               units |-> <<>>]
         ELSE [err |-> NoExc, units |-> SubSeq(u.units, 1, Len(u.units) - 1)]

\* DataPacket.__init__(data): [err, units]
DataPacket_init(data) ==
    IF Slice(data, 0, Len(HEADER)) # HEADER
    THEN [err |-> Raise("MalformedPacketError", "SMA header incorrect"),
          units |-> <<>>]
    ELSE DataPacket_end(UnpackUnits(data, Len(HEADER), <<>>), Len(data))

(***************************************************************************)
(* Net2DataPacket                                                          *)
(***************************************************************************)
\* the mutant of Net2Extract that keeps the first unit of tag TAG_NET_2
RECURSIVE Net2Extract_first(_, _)
Net2Extract_first(units, acc) ==
    IF units = <<>> \/ acc.err # NoExc THEN acc
    ELSE LET unit == Head(units)
         IN  IF unit.tag = TAG_NET_2
             THEN IF unit.data.isNone
                  THEN [acc EXCEPT !.err =
                           Raise("TypeError", "object of type 'NoneType' has no len()")]
                  ELSE IF Len(unit.data.v) < 2
                  THEN [acc EXCEPT !.err =
                           Raise("MalformedPacketError", "too short net 2 data")]
                  ELSE IF acc.found THEN Net2Extract_first(Tail(units), acc)
                  ELSE Net2Extract_first(Tail(units),
                           [acc EXCEPT !.found = TRUE,
                                       !.protocol = UnpackHBE(unit.data.v, 0),
                                       !.net_data = Slice(unit.data.v, 2,
                                                          Len(unit.data.v))])
             ELSE Net2Extract_first(Tail(units),
                                    [acc EXCEPT !.units = Append(@, unit)])

\* the unit loop of Net2DataPacket.__init__, last net 2 unit assigned last
RECURSIVE Net2Extract(_, _)
Net2Extract(units, acc) ==
    IF units = <<>> \/ acc.err # NoExc THEN acc
    ELSE LET unit == Head(units)
         IN  IF unit.tag = TAG_NET_2
             THEN IF unit.data.isNone
                  THEN [acc EXCEPT !.err =
                           Raise("TypeError", "object of type 'NoneType' has no len()")]
                  ELSE IF Len(unit.data.v) < 2
                  THEN [acc EXCEPT !.err =
                           Raise("MalformedPacketError", "too short net 2 data")]
                  ELSE Net2Extract(Tail(units),
                           [acc EXCEPT !.found = TRUE,
                                       !.protocol = UnpackHBE(unit.data.v, 0),
                                       !.net_data = Slice(unit.data.v, 2,
                                                          Len(unit.data.v))])
             ELSE Net2Extract(Tail(units),
                              [acc EXCEPT !.units = Append(@, unit)])

\* Net2DataPacket.__init__(protocol=protocol): a new envelope
Net2DataPacket_new(protocol) ==
    [err |-> NoExc, found |-> TRUE, protocol |-> protocol, net_data |-> <<>>,
     units |-> DataPacket_new]

Net2Empty ==
    [err |-> NoExc, found |-> FALSE, protocol |-> 0, net_data |-> <<>>,
     units |-> <<>>]

\* Net2DataPacket.__init__(data=data) after the unit loop
Net2DataPacket_found(r) ==
    IF r.err # NoExc THEN [Net2Empty EXCEPT !.err = r.err]
    ELSE IF ~r.found
    THEN [Net2Empty EXCEPT !.err =
             Raise("MalformedPacketError", "no net 2 protocol found")]
    ELSE r

\* Net2DataPacket.__init__(data=data) after DataPacket.__init__(self, data)
Net2DataPacket_units(base) ==
    IF base.err # NoExc THEN [Net2Empty EXCEPT !.err = base.err]
    ELSE Net2DataPacket_found(Net2Extract(base.units, Net2Empty))

\* Net2DataPacket.__init__(data=data): [err, found, protocol, net_data, units]
Net2DataPacket_init(data) == Net2DataPacket_units(DataPacket_init(data))

\* the mutant of Net2DataPacket_get_data that writes the protocol id low byte first
Net2DataPacket_get_data_le(packet) ==
    DataPacket_get_data(packet.units,
        <<DataUnit(TAG_NET_2, 0,
                   Some(WordBytesLE(packet.protocol) \o packet.net_data))>>)

\* Net2DataPacket.get_data
Net2DataPacket_get_data(packet) ==
    IF ~FitsH(packet.protocol)
    THEN [err |-> Raise("struct.error", "'H' format"), bytes |-> <<>>]
    ELSE DataPacket_get_data(packet.units,
             <<DataUnit(TAG_NET_2, 0,
                        Some(WordBytesBE(packet.protocol) \o packet.net_data))>>)

(***************************************************************************)
(* DeviceDataPacket                                                        *)
(***************************************************************************)
PROTOCOL == 24677

CMD_READ_REQUEST == 0

CMD_READ_RESPONSE == 1

CMD_JOB_REQUEST == 12

CMD_JOB_RESPONSE == 13

CMD_JOB_LOGOFF == 14

Address(susy_id, serial) == [susy_id |-> susy_id, serial |-> serial]

WildcardAddress == Address(65535, Wide(FALSE, 65535, 65535, 0, 0))

\* the fields of a DeviceDataPacket that a message consists of
MessageFields ==
    {"control", "destination", "job_num", "source", "status", "packet_count",
     "packet_id", "command", "obj", "params", "data"}

Message(p) == [f \in MessageFields |-> p[f]]

\* x | 0x8000 and x & ~0x8000 for x >= 0
Or8000(x) == IF (x \div 32768) % 2 = 1 THEN x ELSE x + 32768

AndNot8000(x) == IF (x \div 32768) % 2 = 1 THEN x - 32768 ELSE x

\* DeviceDataPacket.__init__: struct.unpack_from("<L", net_data, offset)[0]
ParamUnpack(b, off) == UnpackL(b, off)

RECURSIVE UnpackParams(_, _, _)
UnpackParams(b, off, n) ==
    IF n = 0 THEN <<>>
    ELSE <<ParamUnpack(b, off)>> \o UnpackParams(b, off + 4, n - 1)

DeviceFail(e, m) == [err |-> Raise(e, m)]

\* the mutant of DeviceDataPacket_net_data without the check of the
\* parameter count
DeviceDataPacket_net_data_nocount(packet, nd) ==
        IF packet.err # NoExc THEN [err |-> packet.err]
        ELSE IF packet.protocol # PROTOCOL
        THEN DeviceFail("MalformedPacketError", "Not a device data packet")
        ELSE IF Len(nd) < 28
        THEN DeviceFail("MalformedPacketError", "Too short device data packet")
        ELSE IF ByteAt(nd, 0) * 4 # Len(nd)
        THEN DeviceFail("MalformedPacketError", "Wrong device data packet length")
        ELSE [err |-> NoExc, packet |-> packet, params |-> <<>>,
              data |-> Slice(nd, 28 + 4 * ByteAt(nd, 25), Len(nd))]

\* DeviceDataPacket.__init__(data=data) after Net2DataPacket.__init__, nd being
\* self.net_data
DeviceDataPacket_net_data(packet, nd) ==
        IF packet.err # NoExc THEN [err |-> packet.err]
        ELSE IF packet.protocol # PROTOCOL
        THEN DeviceFail("MalformedPacketError", "Not a device data packet")
        ELSE IF Len(nd) < 28
        THEN DeviceFail("MalformedPacketError", "Too short device data packet")
        ELSE IF ByteAt(nd, 0) * 4 # Len(nd)
        THEN DeviceFail("MalformedPacketError", "Wrong device data packet length")
        ELSE IF 28 + ByteAt(nd, 25) * 4 > Len(nd)
        THEN DeviceFail("MalformedPacketError", "Bad device data packet params")
        ELSE [err          |-> NoExc,
              packet       |-> packet,
              control      |-> ByteAt(nd, 1),
              destination  |-> Address(UnpackH(nd, 2), UnpackL(nd, 4)),
              job_num      |-> ByteAt(nd, 9) % 16,
              source       |-> Address(UnpackH(nd, 10), UnpackL(nd, 12)),
              status       |-> UnpackH(nd, 18),
              packet_count |-> UnpackH(nd, 20),
              packet_id    |-> AndNot8000(UnpackH(nd, 22)),
              command      |-> ByteAt(nd, 24),
              obj          |-> UnpackH(nd, 26),
              params       |-> UnpackParams(nd, 28, ByteAt(nd, 25)),
              data         |-> Slice(nd, 28 + 4 * ByteAt(nd, 25), Len(nd))]

DeviceDataPacket_net2(packet) == DeviceDataPacket_net_data(packet, packet.net_data)

\* DeviceDataPacket.__init__(data=data): the packet, or [err] when it raises
DeviceDataPacket_init(data) == DeviceDataPacket_net2(Net2DataPacket_init(data))

\* DeviceDataPacket.__init__(**kwargs): a new outbound packet; kw.packet_id
\* is Null or Some(id); pid is DeviceDataPacket.PacketId
DeviceDataPacket_new(kw, pid) ==
    [err          |-> NoExc,
     packet       |-> Net2DataPacket_new(PROTOCOL),
     control      |-> 160,
     destination  |-> kw.destination,
     job_num      |-> kw.job_num,
     source       |-> kw.source,
     status       |-> 0,
     packet_count |-> 0,
     packet_id    |-> IF kw.packet_id.isNone THEN pid ELSE kw.packet_id.v,
     command      |-> kw.command,
     obj          |-> kw.obj,
     params       |-> <<>>,
     data         |-> <<>>]

\* the mutant of PacketId_after that takes a supplied packet_id of 0 as missing
PacketId_after_falsy(kw, pid) ==
    IF kw.packet_id.isNone \/ kw.packet_id.v = 0 THEN pid + 1 ELSE pid

\* DeviceDataPacket.PacketId after DeviceDataPacket.__init__(**kwargs)
PacketId_after(kw, pid) == IF kw.packet_id.isNone THEN pid + 1 ELSE pid

\* the keyword arguments with their defaults (kwargs.get)
Kwargs(destination, job_num, source, packet_id, command, obj) ==
    [destination |-> destination, job_num |-> job_num, source |-> source,
     packet_id |-> packet_id, command |-> command, obj |-> obj]

KwDefault ==
    Kwargs(WildcardAddress, 0, Address(0, W(0)), Null, 0, 0)

\* DeviceDataPacket.add_param
add_param(p, param) == [p EXCEPT !.params = Append(@, param)]

RECURSIVE PackParams(_)
PackParams(params) ==
    IF params = <<>> THEN <<>>
    ELSE Packl(Head(params)) \o PackParams(Tail(params))

\* the values struct.pack accepts in DeviceDataPacket.get_data
PackArgsOk(p, length) ==
    /\ FitsB(length) /\ FitsB(p.control)
    /\ FitsH(p.destination.susy_id) /\ FitsL(p.destination.serial)
    /\ FitsH(p.source.susy_id) /\ FitsL(p.source.serial)
    /\ FitsH(p.status) /\ FitsH(p.packet_count)
    /\ FitsH(Or8000(p.packet_id))
    /\ FitsB(p.command) /\ FitsB(Len(p.params)) /\ FitsH(p.obj)
    /\ \A i \in 1..Len(p.params) : Fitsl(p.params[i])

\* the net 2 data that DeviceDataPacket.get_data builds
DeviceNetData(p, length) ==
    <<length, p.control>>
    \o WordBytesLE(p.destination.susy_id) \o PackL(p.destination.serial)
    \o <<0, p.job_num % 16>>
    \o WordBytesLE(p.source.susy_id) \o PackL(p.source.serial)
    \o <<0, p.job_num % 16>>
    \o WordBytesLE(p.status) \o WordBytesLE(p.packet_count)
    \o WordBytesLE(Or8000(p.packet_id))
    \o <<p.command, Len(p.params)>> \o WordBytesLE(p.obj)
    \o PackParams(p.params) \o p.data

\* the mutant of DeviceDataPacket_get_data without the assertion on the
\* payload length
DeviceDataPacket_get_data_noassert(p) ==
    IF ~PackArgsOk(p, 7 + Len(p.params) + (Len(p.data) \div 4))
    THEN [err |-> Raise("struct.error", "argument out of range"), bytes |-> <<>>]
    ELSE Net2DataPacket_get_data(
             [p.packet EXCEPT !.net_data =
                 DeviceNetData(p, 7 + Len(p.params) + (Len(p.data) \div 4))])

\* DeviceDataPacket.get_data: [err, bytes]
DeviceDataPacket_get_data(p) ==
    LET length == 7 + Len(p.params) + (Len(p.data) \div 4)
    IN  IF Len(p.data) % 4 # 0
        THEN [err |-> Raise("AssertionError", "len(self.data) % 4 == 0"),
              bytes |-> <<>>]
        ELSE IF ~PackArgsOk(p, length)
        THEN [err |-> Raise("struct.error", "argument out of range"),
              bytes |-> <<>>]
        ELSE Net2DataPacket_get_data(
                 [p.packet EXCEPT !.net_data = DeviceNetData(p, length)])

(***************************************************************************)
(* DeviceDataPacket.decode_read_response                                   *)
(***************************************************************************)
ReadResponseObject(cls, code, timestamp, data) ==
    [cls |-> cls, code |-> code, timestamp |-> timestamp, data |-> data]

\* Python values: None, a str (as UTF-8 bytes), a list, an int, a float n/d
NoData == [kind |-> "None"]

TextData(t) == [kind |-> "str", v |-> t]

ListData(l) == [kind |-> "list", v |-> l]

IntData(x) == [kind |-> "int", v |-> x]

FloatData(x, d) == [kind |-> "float", v |-> x, den |-> d]

U64Max == Wide(FALSE, 65535, 65535, 65535, 65535)

U32Max == Wide(FALSE, 65535, 65535, 0, 0)

S32Min == Wide(TRUE, 0, 32768, 0, 0)

\* text.rstrip(b'\0')
RECURSIVE RStripNul(_)
RStripNul(t) ==
    IF t = <<>> \/ t[Len(t)] # 0 THEN t ELSE RStripNul(SubSeq(t, 1, Len(t) - 1))

IsCont(t, i) == i <= Len(t) /\ t[i] >= 128 /\ t[i] <= 191

\* whether bytes.decode('utf-8') accepts t from position i on
RECURSIVE Utf8Ok(_, _)
Utf8Ok(t, i) ==
    IF i > Len(t) THEN TRUE
    ELSE LET c == t[i]
         IN  IF c < 128 THEN Utf8Ok(t, i + 1)
             ELSE IF c >= 194 /\ c <= 223
             THEN IsCont(t, i + 1) /\ Utf8Ok(t, i + 2)
             ELSE IF c >= 224 /\ c <= 239
             THEN /\ IsCont(t, i + 1) /\ IsCont(t, i + 2)
                  /\ (c = 224 => t[i + 1] >= 160)
                  /\ (c = 237 => t[i + 1] <= 159)
                  /\ Utf8Ok(t, i + 3)
             ELSE IF c >= 240 /\ c <= 244
             THEN /\ IsCont(t, i + 1) /\ IsCont(t, i + 2) /\ IsCont(t, i + 3)
                  /\ (c = 240 => t[i + 1] >= 144)
                  /\ (c = 244 => t[i + 1] <= 143)
                  /\ Utf8Ok(t, i + 4)
             ELSE FALSE

\* the attribute loop of a status block: the tags that are set, to the end tag
RECURSIVE StatusTags(_, _, _)
StatusTags(b, off, n) ==
    IF n = 0 THEN <<>>
    ELSE LET lo     == UnpackH(b, off)
             hi     == UnpackH(b, off + 2)
             tag    == Wide(FALSE, lo, hi % 256, 0, 0)
             is_set == hi \div 256
         IN  IF lo = 65534 /\ hi % 256 = 255 THEN <<>>
             ELSE (IF is_set # 0 THEN <<IntData(tag)>> ELSE <<>>)
                  \o StatusTags(b, off + 4, n - 1)

\* the mutant of FiveValues with the unsigned sentinel for both types
RECURSIVE FiveValues_unsigned(_, _, _, _)
FiveValues_unsigned(b, off, n, data_type) ==
    IF n = 0 THEN <<>>
    ELSE <<IF UnpackL(b, off) # U32Max
           THEN IntData(IF data_type = 0 THEN UnpackL(b, off) ELSE Unpackl(b, off))
           ELSE NoData>>
         \o FiveValues_unsigned(b, off + 4, n - 1, data_type)

\* the value loop of a block of five 32-bit integers
RECURSIVE FiveValues(_, _, _, _)
FiveValues(b, off, n, data_type) ==
    IF n = 0 THEN <<>>
    ELSE LET value == IF data_type = 0 THEN UnpackL(b, off) ELSE Unpackl(b, off)
         IN  <<IF \/ (data_type = 0 /\ value # U32Max)
                  \/ (data_type = 64 /\ value # S32Min)
               THEN IntData(value) ELSE NoData>>
             \o FiveValues(b, off + 4, n - 1, data_type)

ShortBuffer == Raise("struct.error", "unpack_from requires a buffer")

\* the mutant of ReadLoop that tests "self.obj == 0x5400" before the type tags
RECURSIVE ReadLoop_counter_first(_, _, _, _)
ReadLoop_counter_first(data, obj, offset, response) ==
    IF offset + 8 <= Len(data)
    THEN LET cls       == ByteAt(data, offset)
             code      == UnpackH(data, offset + 1)
             data_type == ByteAt(data, offset + 3)
             timestamp == UnpackL(data, offset + 4)
             o         == offset + 8
             left      == Len(data) - o
             entry(d)  == Append(response,
                                 ReadResponseObject(cls, code, timestamp, d))
         IN  IF obj = 21504
             THEN IF left < 8 THEN [err |-> ShortBuffer, response |-> <<>>]
                  ELSE LET value == UnpackQ(data, o)
                       IN  ReadLoop_counter_first(data, obj, o + 8,
                               entry(IF value # U64Max THEN IntData(value)
                                                       ELSE NoData))
             ELSE IF data_type = 16
             THEN IF left < 32 THEN [err |-> ShortBuffer, response |-> <<>>]
                  ELSE ReadLoop_counter_first(data, obj, o + 32,
                           entry(TextData(RStripNul(Slice(data, o, o + 32)))))
             ELSE IF data_type = 8
             THEN IF left < 32 THEN [err |-> ShortBuffer, response |-> <<>>]
                  ELSE ReadLoop_counter_first(data, obj, o + 32,
                           entry(ListData(StatusTags(data, o, 8))))
             ELSE IF data_type = 0 \/ data_type = 64
             THEN IF left < 20 THEN [err |-> ShortBuffer, response |-> <<>>]
                  ELSE ReadLoop_counter_first(data, obj, o + 20,
                           entry(ListData(FiveValues(data, o, 5, data_type))))
             ELSE ReadLoop_counter_first(data, obj, o, entry(NoData))
    ELSE IF offset # Len(data)
         THEN [err |-> Raise("AssertionError", "offset == len(self.data)"),
               response |-> <<>>]
         ELSE [err |-> NoExc, response |-> response]

\* the mutant of ReadLoop without "assert(offset == len(self.data))"
RECURSIVE ReadLoop_noassert(_, _, _, _)
ReadLoop_noassert(data, obj, offset, response) ==
    IF offset + 8 <= Len(data)
    THEN LET cls       == ByteAt(data, offset)
             code      == UnpackH(data, offset + 1)
             data_type == ByteAt(data, offset + 3)
             timestamp == UnpackL(data, offset + 4)
             o         == offset + 8
             left      == Len(data) - o
             entry(d)  == Append(response,
                                 ReadResponseObject(cls, code, timestamp, d))
         IN  IF data_type = 16
             THEN IF left < 32 THEN [err |-> ShortBuffer, response |-> <<>>]
                  ELSE LET text == RStripNul(Slice(data, o, o + 32))
                       IN  IF ~Utf8Ok(text, 1)
                           THEN [err |-> Raise("UnicodeDecodeError", "utf-8"),
                                 response |-> <<>>]
                           ELSE ReadLoop_noassert(data, obj, o + 32,
                                                  entry(TextData(text)))
             ELSE IF data_type = 8
             THEN IF left < 32 THEN [err |-> ShortBuffer, response |-> <<>>]
                  ELSE ReadLoop_noassert(data, obj, o + 32,
                                entry(ListData(StatusTags(data, o, 8))))
             ELSE IF obj = 21504
             THEN IF left < 8 THEN [err |-> ShortBuffer, response |-> <<>>]
                  ELSE LET value == UnpackQ(data, o)
                       IN  ReadLoop_noassert(data, obj, o + 8,
                                    entry(IF value # U64Max THEN IntData(value)
                                                            ELSE NoData))
             ELSE IF data_type = 0 \/ data_type = 64
             THEN IF left < 20 THEN [err |-> ShortBuffer, response |-> <<>>]
                  ELSE ReadLoop_noassert(data, obj, o + 20,
                                entry(ListData(FiveValues(data, o, 5, data_type))))
             ELSE ReadLoop_noassert(data, obj, o, entry(NoData))
    ELSE [err |-> NoExc, response |-> response]

\* DeviceDataPacket.decode_read_response: [err, response]
RECURSIVE ReadLoop(_, _, _, _)
ReadLoop(data, obj, offset, response) ==
    IF offset + 8 <= Len(data)
    THEN LET cls       == ByteAt(data, offset)
             code      == UnpackH(data, offset + 1)
             data_type == ByteAt(data, offset + 3)
             timestamp == UnpackL(data, offset + 4)
             o         == offset + 8
             left      == Len(data) - o
             entry(d)  == Append(response,
                                 ReadResponseObject(cls, code, timestamp, d))
         IN  IF data_type = 16
             THEN IF left < 32 THEN [err |-> ShortBuffer, response |-> <<>>]
                  ELSE LET text == RStripNul(Slice(data, o, o + 32))
                       IN  IF ~Utf8Ok(text, 1)
                           THEN [err |-> Raise("UnicodeDecodeError", "utf-8"),
                                 response |-> <<>>]
                           ELSE ReadLoop(data, obj, o + 32, entry(TextData(text)))
             ELSE IF data_type = 8
             THEN IF left < 32 THEN [err |-> ShortBuffer, response |-> <<>>]
                  ELSE ReadLoop(data, obj, o + 32,
                                entry(ListData(StatusTags(data, o, 8))))
             ELSE IF obj = 21504
             THEN IF left < 8 THEN [err |-> ShortBuffer, response |-> <<>>]
                  ELSE LET value == UnpackQ(data, o)
                       IN  ReadLoop(data, obj, o + 8,
                                    entry(IF value # U64Max THEN IntData(value)
                                                            ELSE NoData))
             ELSE IF data_type = 0 \/ data_type = 64
             THEN IF left < 20 THEN [err |-> ShortBuffer, response |-> <<>>]
                  ELSE ReadLoop(data, obj, o + 20,
                                entry(ListData(FiveValues(data, o, 5, data_type))))
             ELSE ReadLoop(data, obj, o, entry(NoData))
    ELSE IF offset # Len(data)
         THEN [err |-> Raise("AssertionError", "offset == len(self.data)"),
               response |-> <<>>]
         ELSE [err |-> NoExc, response |-> response]

\* the mutant of decode_read_response without the branch "elif self.obj == 0x5400"
decode_read_response_typed(p) == ReadLoop(p.data, 0, 0, <<>>)

\* the mutant of decode_read_response that gives up on a status other than 0
decode_read_response_status(p) ==
    IF p.status # 0
    THEN [err |-> Raise("MalformedPacketError", "Status not OK"), response |-> <<>>]
    ELSE ReadLoop(p.data, p.obj, 0, <<>>)

decode_read_response(p) == ReadLoop(p.data, p.obj, 0, <<>>)

(***************************************************************************)
(* Bounds of the model, and the addresses of the two devices in it         *)
(***************************************************************************)
MaxUnits == 2

MaxParams == 2

MaxPid == 4

Off == [on |-> FALSE]

NoCall == [op |-> "none"]

NoWire == [kind |-> "none"]

AddrA == Address(359, Wide(FALSE, 4660, 40000, 0, 0))

AddrB == Address(9, W(77))

LocalAddress == Address(1, W(123456))

(***************************************************************************)
(* MulticastSocket and the single thread of the process                    *)
(***************************************************************************)
MaxInbox == 2

Returned(op, value) == [op |-> op, outcome |-> "returned", value |-> value]

Raised(op, exc) == [op |-> op, outcome |-> "raised", exc |-> exc]

Timeout == Raise("socket.timeout", "timed out")

BenchVarsUnchanged == UNCHANGED <<unit_list, dev, wire, got>>

\* a datagram of the multicast group becomes readable on the socket
ArriveFrom(frames) ==
    /\ Len(inbox) < MaxInbox
    /\ \E f \in frames : inbox' = Append(inbox, f)
    /\ UNCHANGED <<PacketId, sent, nrecv, now, pc, self, loc, ret, sessions, auth>>
    /\ BenchVarsUnchanged

\* a response as a device builds it
Reply(destination, source, job_num, command, obj, status, packet_count, params, data) ==
    [DeviceDataPacket_new(
         Kwargs(destination, job_num, source, Some(1), command, obj), 0)
       EXCEPT !.status = status, !.packet_count = packet_count,
              !.params = params, !.data = data]

FrameOf(p) == DeviceDataPacket_get_data(p).bytes

(***************************************************************************)
(* Inverter                                                                *)
(***************************************************************************)
OBJ_LOGIN == 65533

JOB_NUM_LOGIN == 1

JOB_NUM_LOGOUT == 3

\* Inverter.__init__
Inverter(address) ==
    [address |-> address, local_address |-> Address(1, W(123456))]

\* the session state that logins and logouts add up to; relogin records an
\* Authenticated that followed a LoggedOut
NewAuth == [state |-> "Unauthenticated", relogin |-> FALSE]

Zeros(n) == [i \in 1..n |-> 0]

\* Inverter.login: encoded[0:12], or the exception bytes() raises
EncodePassword(user_type, password) ==
    IF \E i \in 1..Len(password) : password[i] + user_type > 255
    THEN [err |-> Raise("ValueError", "bytes must be in range(0, 256)"),
          data |-> <<>>]
    ELSE LET encoded == [i \in 1..Len(password) |-> password[i] + user_type]
             pad     == IF 12 - Len(password) > 0 THEN 12 - Len(password) ELSE 0
         IN  [err |-> NoExc,
              data |-> Slice(encoded \o Zeros(pad * user_type), 0, 12)]

\* Inverter.login: the packet built once the password is encoded
LoginPacket(inv, user_type, data, pid, t) ==
    LET p == DeviceDataPacket_new(
                 Kwargs(inv.address, JOB_NUM_LOGIN, inv.local_address, Null,
                        CMD_JOB_REQUEST, OBJ_LOGIN), pid)
    IN  add_param(add_param(add_param(add_param([p EXCEPT !.data = data],
            IF user_type = 136 THEN W(7) ELSE W(10)), W(300)), W(t)), W(0))

CallVars(i, op, packet) == [op |-> op, packet |-> packet]

\* Inverter.login up to and including self.socket.send
CallLogin(users, passwords) ==
    /\ pc = "idle" /\ PacketId < MaxPid
    /\ \E i \in 1..Len(sessions), user_type \in users, password \in passwords :
          LET enc == EncodePassword(user_type, password)
              p   == LoginPacket(sessions[i], user_type, enc.data, PacketId, now)
              b   == DeviceDataPacket_get_data(p)
          IN  /\ self' = i /\ nrecv' = 0
              /\ IF enc.err # NoExc
                 THEN /\ ret' = Raised("login", enc.err) /\ loc' = NoCall
                      /\ sent' = <<>> /\ pc' = "idle" /\ UNCHANGED PacketId
                 ELSE /\ PacketId' = PacketId + 1
                      /\ IF b.err # NoExc
                         THEN /\ ret' = Raised("login", b.err) /\ loc' = NoCall
                              /\ sent' = <<>> /\ pc' = "idle"
                         ELSE /\ sent' = <<b.bytes>> /\ pc' = "login_recv"
                              /\ loc' = CallVars(i, "login", p) /\ ret' = NoCall
    /\ UNCHANGED <<inbox, now, sessions, auth>> /\ BenchVarsUnchanged

\* the mutant of LoginSucceeds that takes any decodable response for success
LoginSucceeds_any(response, inv) == TRUE

\* the mutant of LoginSucceeds that pairs the response with the session's
\* device
LoginSucceeds_paired(response, inv) ==
    response.destination = inv.local_address /\ response.source = inv.address

\* Inverter.login: "if response.destination == self.local_address"
LoginSucceeds(response, inv) == response.destination = inv.local_address

\* Inverter.login from self.socket.recv() on
LoginRecv ==
    /\ pc = "login_recv" /\ pc' = "idle" /\ nrecv' = nrecv + 1
    /\ IF inbox = <<>>
       THEN /\ ret' = Raised("login", Timeout)
            /\ UNCHANGED <<inbox, auth>> /\ loc' = loc
       ELSE \E response \in {DeviceDataPacket_init(Head(inbox))} :
                /\ inbox' = Tail(inbox)
                /\ loc' = loc @@ [response |-> response]
                /\ IF response.err # NoExc
                   THEN ret' = Raised("login", response.err) /\ UNCHANGED auth
                   ELSE /\ ret' = Returned("login", NoData)
                        /\ IF LoginSucceeds(response, sessions[self])
                           THEN auth' = [auth EXCEPT ![self] =
                                    [state |-> "Authenticated",
                                     relogin |-> @.relogin \/ @.state = "LoggedOut"]]
                           ELSE UNCHANGED auth
    /\ UNCHANGED <<PacketId, sent, now, self, sessions>> /\ BenchVarsUnchanged

\* the mutant of LogoutPacket that carries the job number of login
LogoutPacket_login_job(inv, pid) ==
    add_param(DeviceDataPacket_new(
                  [KwDefault EXCEPT !.source = inv.local_address,
                                    !.command = CMD_JOB_LOGOFF,
                                    !.obj = OBJ_LOGIN,
                                    !.job_num = JOB_NUM_LOGIN], pid),
              W(-1))

\* the mutant of LogoutPacket with the session's own local address as the
\* destination
LogoutPacket_to_self(inv, pid) ==
    add_param(DeviceDataPacket_new(
                  [KwDefault EXCEPT !.source = inv.local_address,
                                    !.destination = inv.local_address,
                                    !.command = CMD_JOB_LOGOFF,
                                    !.obj = OBJ_LOGIN,
                                    !.job_num = JOB_NUM_LOGOUT], pid),
              W(-1))

\* Inverter.logout: the packet it builds
LogoutPacket(inv, pid) ==
    add_param(DeviceDataPacket_new(
                  [KwDefault EXCEPT !.source = inv.local_address,
                                    !.command = CMD_JOB_LOGOFF,
                                    !.obj = OBJ_LOGIN,
                                    !.job_num = JOB_NUM_LOGOUT], pid),
              W(-1))

\* Inverter.logout
CallLogout ==
    /\ pc = "idle" /\ PacketId < MaxPid
    /\ \E i \in 1..Len(sessions) :
          LET p == LogoutPacket(sessions[i], PacketId)
              b == DeviceDataPacket_get_data(p)
          IN  /\ self' = i /\ nrecv' = 0 /\ PacketId' = PacketId + 1
              /\ loc' = CallVars(i, "logout", p)
              /\ IF b.err # NoExc
                 THEN ret' = Raised("logout", b.err) /\ sent' = <<>> /\ UNCHANGED auth
                 ELSE /\ sent' = <<b.bytes>> /\ ret' = Returned("logout", NoData)
                      /\ auth' = [auth EXCEPT ![i].state = "LoggedOut"]
    /\ UNCHANGED <<inbox, now, pc, sessions>> /\ BenchVarsUnchanged

(***************************************************************************)
(* Inverter: the typed register reads                                      *)
(***************************************************************************)
CODE_DAY_YIELD == 9762

CODE_TOTAL_YIELD == 9729

CODE_DC_POWER == 9502

CODE_DC_INPUT_VOLTAGE == 17695

CODE_DC_INPUT_CURRENT == 17697

CODE_AC_POWER_L1 == 17984

CODE_AC_VOLTAGE_L1 == 17992

CODE_AC_CURRENT_L1 == 18000

ReadOps ==
    {"get_day_yield", "get_total_yield", "get_dc_data", "get_ac_data",
     "get_ac_total_power", "get"}

\* the object id and the two parameters of each read request
ReadRequest(op) ==
    CASE op = "get_day_yield"      -> [obj |-> 21504, first |-> 2499072, last |-> 2499327]
      [] op = "get_total_yield"    -> [obj |-> 21504, first |-> 2490624, last |-> 2490879]
      [] op = "get_dc_data"        -> [obj |-> 21376, first |-> 2432512, last |-> 4530687]
      [] op = "get_ac_data"        -> [obj |-> 20736, first |-> 4603904, last |-> 4609535]
      [] op = "get_ac_total_power" -> [obj |-> 20736, first |-> 2506496, last |-> 2506751]
      [] op = "get"                -> [obj |-> 22528, first |-> 8527360, last |-> 8528127]

\* the packet a typed read builds
ReadPacket(inv, op, pid) ==
    LET q == ReadRequest(op)
        p == DeviceDataPacket_new(
                 Kwargs(inv.address, 0, inv.local_address, Null,
                        CMD_READ_REQUEST, q.obj), pid)
    IN  add_param(add_param(p, W(q.first)), W(q.last))

\* the bytes of the first character of a non-empty str
FirstChar(t) ==
    LET c == t[1]
        n == IF c < 128 THEN 1 ELSE IF c < 224 THEN 2 ELSE IF c < 240 THEN 3 ELSE 4
    IN  SubSeq(t, 1, n)

\* r.data[0]
GetItem0(d) ==
    CASE d.kind = "None" ->
            [err |-> Raise("TypeError", "'NoneType' object is not subscriptable"),
             v |-> NoData]
      [] d.kind = "int" ->
            [err |-> Raise("TypeError", "'int' object is not subscriptable"),
             v |-> NoData]
      [] d.kind = "list" ->
            IF d.v = <<>>
            THEN [err |-> Raise("IndexError", "list index out of range"), v |-> NoData]
            ELSE [err |-> NoExc, v |-> d.v[1]]
      [] d.kind = "str" ->
            IF d.v = <<>>
            THEN [err |-> Raise("IndexError", "string index out of range"),
                  v |-> NoData]
            ELSE [err |-> NoExc, v |-> TextData(FirstChar(d.v))]

IsZero(x) == x.w = <<0, 0, 0, 0>>

\* Inverter._to_voltage (den = 100) and Inverter._to_current (den = 1000)
ToScaled(x, den) ==
    CASE x.kind = "None" -> [err |-> NoExc, v |-> x]
      [] x.kind = "int"  -> [err |-> NoExc,
                             v |-> IF IsZero(x.v) THEN x ELSE FloatData(x.v, den)]
      [] OTHER -> [err |-> Raise("TypeError", "unsupported operand type(s) for /"),
                   v |-> NoData]

\* whether x / 1000.0 and x * y are defined
IsNumber(x) == x.kind = "int" \/ x.kind = "float"

\* the mutant of YieldResult without the assertion on the code
YieldResult_anycode(op, code, response) ==
    IF Len(response) # 1
    THEN Raised(op, Raise("AssertionError", "len(response) == 1"))
    ELSE IF ~IsNumber(response[1].data)
    THEN Raised(op, Raise("TypeError", "unsupported operand type(s) for /"))
    ELSE Returned(op, response[1].data)

\* get_day_yield and get_total_yield once the response is decoded
YieldResult(op, code, response) ==
    IF Len(response) # 1
    THEN Raised(op, Raise("AssertionError", "len(response) == 1"))
    ELSE IF response[1].code # code
    THEN Raised(op, Raise("AssertionError", "response[0].code"))
    ELSE IF ~IsNumber(response[1].data)
    THEN Raised(op, Raise("TypeError", "unsupported operand type(s) for /"))
    ELSE Returned(op, response[1].data)

\* get_ac_total_power once the response is decoded
AcTotalPowerResult(op, response) ==
    IF Len(response) # 1
    THEN Raised(op, Raise("AssertionError", "len(response) == 1"))
    ELSE LET power == GetItem0(response[1].data)
         IN  IF power.err # NoExc THEN Raised(op, power.err)
             ELSE Returned(op, power.v)

Triple(power, voltage, current) ==
    [kind |-> "tuple", power |-> power, voltage |-> voltage, current |-> current]

\* the loop "for r in response" of get_dc_data
RECURSIVE DcLoop(_, _)
DcLoop(response, acc) ==
    IF response = <<>> \/ acc.err # NoExc THEN acc
    ELSE LET r    == Head(response)
             item == GetItem0(r.data)
         IN  IF r.cls # 1 /\ r.cls # 2
             THEN [acc EXCEPT !.err = Raise("AssertionError", "r.cls == 1 or r.cls == 2")]
             ELSE IF r.code = CODE_DC_POWER
             THEN IF item.err # NoExc THEN [acc EXCEPT !.err = item.err]
                  ELSE DcLoop(Tail(response), [acc EXCEPT !.power[r.cls] = item.v])
             ELSE IF r.code = CODE_DC_INPUT_VOLTAGE
             THEN LET x == ToScaled(item.v, 100)
                  IN  IF item.err # NoExc THEN [acc EXCEPT !.err = item.err]
                      ELSE IF x.err # NoExc THEN [acc EXCEPT !.err = x.err]
                      ELSE DcLoop(Tail(response), [acc EXCEPT !.voltage[r.cls] = x.v])
             ELSE IF r.code = CODE_DC_INPUT_CURRENT
             THEN LET x == ToScaled(item.v, 1000)
                  IN  IF item.err # NoExc THEN [acc EXCEPT !.err = item.err]
                      ELSE IF x.err # NoExc THEN [acc EXCEPT !.err = x.err]
                      ELSE DcLoop(Tail(response), [acc EXCEPT !.current[r.cls] = x.v])
             ELSE DcLoop(Tail(response), acc)

\* get_dc_data once the response is decoded; the debug line of an input with
\* power evaluates voltage[i] * current[i]
DcResult(op, response) ==
    LET none == <<NoData, NoData>>
        acc  == DcLoop(response, [err |-> NoExc, power |-> none, voltage |-> none,
                                  current |-> none])
    IN  IF acc.err # NoExc THEN Raised(op, acc.err)
        ELSE IF \E i \in 1..2 : /\ acc.power[i] # NoData
                                /\ ~(IsNumber(acc.voltage[i]) /\ IsNumber(acc.current[i]))
        THEN Raised(op, Raise("TypeError", "unsupported operand type(s) for *"))
        ELSE Returned(op, Triple(acc.power, acc.voltage, acc.current))

\* the loop "for r in response" of get_ac_data
RECURSIVE AcLoop(_, _)
AcLoop(response, acc) ==
    IF response = <<>> \/ acc.err # NoExc THEN acc
    ELSE LET r    == Head(response)
             item == GetItem0(r.data)
             rest == Tail(response)
         IN  IF r.code \in CODE_AC_POWER_L1..(CODE_AC_POWER_L1 + 2)
             THEN IF item.err # NoExc THEN [acc EXCEPT !.err = item.err]
                  ELSE AcLoop(rest,
                         [acc EXCEPT !.power[r.code - CODE_AC_POWER_L1 + 1] = item.v])
             ELSE IF r.code \in CODE_AC_VOLTAGE_L1..(CODE_AC_VOLTAGE_L1 + 2)
             THEN LET x == ToScaled(item.v, 100)
                  IN  IF item.err # NoExc THEN [acc EXCEPT !.err = item.err]
                      ELSE IF x.err # NoExc THEN [acc EXCEPT !.err = x.err]
                      ELSE AcLoop(rest,
                             [acc EXCEPT !.voltage[r.code - CODE_AC_VOLTAGE_L1 + 1] = x.v])
             ELSE IF r.code \in CODE_AC_CURRENT_L1..(CODE_AC_CURRENT_L1 + 2)
             THEN LET x == ToScaled(item.v, 1000)
                  IN  IF item.err # NoExc THEN [acc EXCEPT !.err = item.err]
                      ELSE IF x.err # NoExc THEN [acc EXCEPT !.err = x.err]
                      ELSE AcLoop(rest,
                             [acc EXCEPT !.current[r.code - CODE_AC_CURRENT_L1 + 1] = x.v])
             ELSE AcLoop(rest, acc)

\* get_ac_data once the response is decoded
AcResult(op, response) ==
    LET none == <<NoData, NoData, NoData>>
        acc  == AcLoop(response, [err |-> NoExc, power |-> none, voltage |-> none,
                                  current |-> none])
    IN  IF acc.err # NoExc THEN Raised(op, acc.err)
        ELSE Returned(op, Triple(acc.power, acc.voltage, acc.current))

\* what a typed read does with the entries of its response
ReadEntries(op, r) ==
        IF r.err # NoExc THEN Raised(op, r.err)
        ELSE CASE op = "get_day_yield" ->
                      YieldResult(op, CODE_DAY_YIELD, r.response)
               [] op = "get_total_yield" ->
                      YieldResult(op, CODE_TOTAL_YIELD, r.response)
               [] op = "get_dc_data" -> DcResult(op, r.response)
               [] op = "get_ac_data" -> AcResult(op, r.response)
               [] op = "get_ac_total_power" -> AcTotalPowerResult(op, r.response)
               [] OTHER -> Returned(op, NoData)

\* what a typed read does with the packet it received
ReadPacketResult(op, packet) ==
    IF packet.err # NoExc THEN Raised(op, packet.err)
    ELSE ReadEntries(op, decode_read_response(packet))

\* what a typed read does with the datagram it received
ReadResult(op, datagram) == ReadPacketResult(op, DeviceDataPacket_init(datagram))

\* a typed read up to and including self.socket.send
CallRead(ops) ==
    /\ pc = "idle" /\ PacketId < MaxPid
    /\ \E i \in 1..Len(sessions), op \in ops :
          LET p == ReadPacket(sessions[i], op, PacketId)
              b == DeviceDataPacket_get_data(p)
          IN  /\ self' = i /\ nrecv' = 0 /\ PacketId' = PacketId + 1
              /\ IF b.err # NoExc
                 THEN /\ ret' = Raised(op, b.err) /\ loc' = NoCall
                      /\ sent' = <<>> /\ pc' = "idle"
                 ELSE /\ sent' = <<b.bytes>> /\ pc' = "read_recv"
                      /\ loc' = CallVars(i, op, p) /\ ret' = NoCall
    /\ UNCHANGED <<inbox, now, sessions, auth>> /\ BenchVarsUnchanged

\* the mutant of ReadAgain in which get() also runs the second
\* DeviceDataPacket(self.socket.recv()) that the source has commented out
ReadAgain_get(op) == op = "get"

\* whether a typed read receives a second datagram after the first
ReadAgain(op) == FALSE

\* a typed read from self.socket.recv() on
ReadRecv ==
    /\ pc = "read_recv" /\ nrecv' = nrecv + 1
    /\ IF inbox = <<>>
       THEN /\ ret' = Raised(loc.op, Timeout) /\ pc' = "idle"
            /\ UNCHANGED <<inbox, loc>>
       ELSE \E res \in {ReadResult(loc.op, Head(inbox))} :
                /\ inbox' = Tail(inbox)
                /\ loc' = [op |-> loc.op, packet |-> loc.packet,
                           datagram |-> Head(inbox)]
                /\ IF res.outcome = "returned" /\ ReadAgain(loc.op) /\ nrecv = 0
                   THEN pc' = "read_recv" /\ ret' = NoCall
                   ELSE pc' = "idle" /\ ret' = res
    /\ UNCHANGED <<PacketId, sent, now, self, sessions, auth>> /\ BenchVarsUnchanged

(***************************************************************************)
(* Inverter: the paginated historical reads                                *)
(***************************************************************************)
PageOps == {"get_day_data", "get_month_data"}

\* the object id of each historical read
PageObject(op) == IF op = "get_day_data" THEN 28672 ELSE 28704

\* the packet a historical read builds; start and end are the timestamps
PagePacket(inv, op, start, end, pid) ==
    LET p == DeviceDataPacket_new(
                 Kwargs(inv.address, 0, inv.local_address, Null,
                        CMD_READ_REQUEST, PageObject(op)), pid)
    IN  add_param(add_param([p EXCEPT !.control = 224], W(start)), W(end))

\* a historical read up to and including self.socket.send
CallPage(ops, starts, ends) ==
    /\ pc = "idle" /\ PacketId < MaxPid
    /\ \E i \in 1..Len(sessions), op \in ops, start \in starts, end \in ends :
       \E b \in {DeviceDataPacket_get_data(
                     PagePacket(sessions[i], op, start, end, PacketId))} :
          /\ self' = i /\ nrecv' = 0 /\ PacketId' = PacketId + 1
          /\ IF b.err # NoExc
             THEN /\ ret' = Raised(op, b.err) /\ loc' = NoCall
                  /\ sent' = <<>> /\ pc' = "idle"
             ELSE /\ sent' = <<b.bytes>> /\ pc' = "page_recv"
                  /\ loc' = [op |-> op,
                             packet |-> PagePacket(sessions[i], op, start, end,
                                                   PacketId),
                             counts |-> <<>>]
                  /\ ret' = NoCall
    /\ UNCHANGED <<inbox, now, sessions, auth>> /\ BenchVarsUnchanged

\* the mutant of PageMore that ends the loop after every frame
PageMore_never(response) == FALSE

\* the mutant of PageMore that looks at the status field
PageMore_status(response) == response.status # 0

\* "if response.packet_count == 0: break"
PageMore(response) == response.packet_count # 0

\* the inner loop over the 12-byte records and the assert that follows it
PageRecordsOk(data) == Len(data) % 12 = 0

\* the frames a historical read may still receive
MaxRecv == 4

\* one iteration of the "while True" of a historical read
PageRecv ==
    /\ pc = "page_recv" /\ nrecv < MaxRecv /\ nrecv' = nrecv + 1
    /\ IF inbox = <<>>
       THEN /\ ret' = Raised(loc.op, Timeout) /\ pc' = "idle"
            /\ UNCHANGED <<inbox, loc>>
       ELSE \E response \in {DeviceDataPacket_init(Head(inbox))} :
                /\ inbox' = Tail(inbox)
                /\ IF response.err # NoExc
                   THEN /\ ret' = Raised(loc.op, response.err) /\ pc' = "idle"
                        /\ loc' = loc
                   ELSE /\ loc' = [loc EXCEPT !.counts =
                                      Append(@, response.packet_count)]
                        /\ IF ~PageRecordsOk(response.data)
                           THEN /\ pc' = "idle"
                                /\ ret' = Raised(loc.op,
                                            Raise("AssertionError",
                                                  "offset == len(response.data)"))
                           ELSE IF PageMore(response)
                           THEN pc' = "page_recv" /\ ret' = NoCall
                           ELSE pc' = "idle" /\ ret' = Returned(loc.op, NoData)
    /\ UNCHANGED <<PacketId, sent, now, self, sessions, auth>> /\ BenchVarsUnchanged

(***************************************************************************)
(* detect_inverters                                                        *)
(***************************************************************************)
\* the clock readings of the model
MaxTime == 3

\* the datagrams that arrive while one discovery runs
MaxArrivals == 3

DetectSource == Address(189, W(123456))

\* the mutant of DetectPacket with one parameter
DetectPacket_oneparam(pid) ==
    add_param(
        DeviceDataPacket_new([KwDefault EXCEPT !.source = DetectSource,
                                               !.command = CMD_READ_REQUEST], pid),
        W(0))

\* the request detect_inverters builds
DetectPacket(pid) ==
    add_param(add_param(
        DeviceDataPacket_new([KwDefault EXCEPT !.source = DetectSource,
                                               !.command = CMD_READ_REQUEST], pid),
        W(0)), W(0))

\* the mutant of DetectAddress that keeps the device type and drops the serial
DetectAddress_type(response) == Address(response.source.susy_id, W(0))

\* the mutant of DetectAddress that takes the address the response is sent to
DetectAddress_destination(response) == response.destination

\* "Inverter(sock, response.source)"
DetectAddress(response) == response.source

\* detect_inverters up to "end = time.time() + timeout"; the datagrams that
\* are readable already arrived before the deadline
DetectStart(timeouts) ==
    /\ pc = "idle" /\ PacketId < MaxPid
    /\ \E timeout \in timeouts :
       \E b \in {DeviceDataPacket_get_data(DetectPacket(PacketId))} :
          /\ now + timeout < MaxTime
          /\ self' = 0 /\ nrecv' = 0 /\ PacketId' = PacketId + 1
          /\ IF b.err # NoExc
             THEN /\ ret' = Raised("detect_inverters", b.err) /\ loc' = NoCall
                  /\ sent' = <<>> /\ pc' = "idle"
             ELSE /\ sent' = <<b.bytes>> /\ pc' = "detect_top" /\ ret' = NoCall
                  /\ loc' = [op |-> "detect_inverters",
                             packet |-> DetectPacket(PacketId),
                             end |-> now + timeout, wait |-> 0,
                             inverters |-> <<>>, read |-> <<>>,
                             arrived |-> inbox,
                             at |-> [k \in 1..Len(inbox) |-> "before"]]
    /\ UNCHANGED <<inbox, now, sessions, auth>> /\ BenchVarsUnchanged

\* "wait = end - time.time(); if wait < 0: break" and, after the loop,
\* "return inverters"; the caller keeps the list as its sessions
DetectTop ==
    /\ pc = "detect_top"
    /\ IF loc.end - now < 0
       THEN /\ pc' = "idle" /\ ret' = Returned("detect_inverters", loc.inverters)
            /\ sessions' = loc.inverters
            /\ auth' = [i \in 1..Len(loc.inverters) |-> NewAuth]
            /\ loc' = loc
       ELSE /\ pc' = "detect_select"
            /\ loc' = [loc EXCEPT !.wait = loc.end - now]
            /\ UNCHANGED <<ret, sessions, auth>>
    /\ UNCHANGED <<PacketId, inbox, sent, nrecv, now, self>> /\ BenchVarsUnchanged

\* "select.select([sock], [], [], wait)" and the body of "if sock in read";
\* with nothing to read select returns when the wait is over
DetectSelect ==
    /\ pc = "detect_select"
    /\ (inbox = <<>>) => (now >= loc.end)
    /\ IF inbox = <<>>
       THEN /\ pc' = "detect_top" /\ UNCHANGED <<inbox, nrecv, loc, ret>>
       ELSE \E response \in {DeviceDataPacket_init(Head(inbox))} :
                /\ inbox' = Tail(inbox) /\ nrecv' = nrecv + 1
                /\ IF response.err # NoExc
                   THEN /\ pc' = "idle"
                        /\ ret' = Raised("detect_inverters", response.err)
                        /\ loc' = [loc EXCEPT !.read = Append(@, Head(inbox))]
                   ELSE /\ pc' = "detect_top" /\ ret' = ret
                        /\ loc' = [loc EXCEPT
                                      !.read = Append(@, Head(inbox)),
                                      !.inverters =
                                          Append(@, Inverter(DetectAddress(response)))]
    /\ UNCHANGED <<PacketId, sent, now, self, sessions, auth>> /\ BenchVarsUnchanged

\* the clock moves on
Tick ==
    /\ now < MaxTime /\ now' = now + 1
    /\ UNCHANGED <<PacketId, inbox, sent, nrecv, pc, self, loc, ret, sessions, auth>>
    /\ BenchVarsUnchanged

\* when a clock reading is, relative to the deadline of the discovery
Deadline(t, end) ==
    IF t < end THEN "before" ELSE IF t = end THEN "at" ELSE "after"

\* a device's datagram becomes readable while a discovery runs; the datagram
\* and when it arrived are recorded
ArriveTimed(frames) ==
    /\ pc \in {"detect_top", "detect_select"}
    /\ Len(inbox) < MaxInbox /\ Len(loc.arrived) < MaxArrivals
    /\ \E f \in frames :
          /\ inbox' = Append(inbox, f)
          /\ loc' = [loc EXCEPT !.arrived = Append(@, f),
                                !.at = Append(@, Deadline(now, loc.end))]
    /\ UNCHANGED <<PacketId, sent, nrecv, now, pc, self, ret, sessions, auth>>
    /\ BenchVarsUnchanged

(***************************************************************************)
(* The codec bench: a program that builds one packet at a time, encodes    *)
(* it with get_data(), may lose the last byte of the result, and builds a  *)
(* packet from the bytes.                                                  *)
(***************************************************************************)
BenchTags == {TAG_END, TAG_NET_2, 4095}

BenchVersions == {0, 15}

BenchPayloads == {Null, Some(<<>>), Some(<<7>>), Some(<<0, 9>>), Some(<<1, 2, 3>>)}

BenchParams == {W(-1), W(0), W(2499072)}

BenchKwargs ==
    {Kwargs(WildcardAddress, 0, Address(189, W(123456)), Null, CMD_READ_REQUEST, 0),
     Kwargs(AddrA, 1, LocalAddress, Null, CMD_JOB_REQUEST, 65533),
     Kwargs(WildcardAddress, 3, LocalAddress, Null, CMD_JOB_LOGOFF, 65533),
     Kwargs(AddrA, 0, LocalAddress, Some(0), CMD_READ_REQUEST, 21504),
     Kwargs(LocalAddress, 15, AddrA, Some(32767), CMD_READ_RESPONSE, 21504),
     Kwargs(LocalAddress, 1, AddrB, Some(5), CMD_JOB_RESPONSE, 65533)}

\* the 8 bytes "<BHBL" that start an entry of a read response, timestamp 0
BenchEntry(cls, code, data_type) ==
    <<cls, code % 256, code \div 256, data_type, 0, 0, 0, 0>>

\* payloads of read responses: three 64-bit counters, a block of five
\* unsigned and a block of five signed 32-bit integers, 8 bytes after a text
\* tag, two entries of 16 bytes, an entry of 16 bytes and one of 12 bytes, a
\* text block and a status block
BenchReadData ==
    {BenchEntry(1, 9729, 0) \o <<255, 255, 255, 255, 255, 255, 255, 255>>,
     BenchEntry(1, 9729, 0) \o <<254, 255, 255, 255, 255, 255, 255, 255>>,
     BenchEntry(1, 9762, 0) \o <<255, 255, 255, 255, 0, 0, 0, 0>>,
     BenchEntry(1, 16415, 0) \o <<255, 255, 255, 255>> \o <<0, 0, 0, 128>>
         \o <<0, 0, 0, 0>> \o <<254, 255, 255, 255>> \o <<255, 255, 255, 255>>,
     BenchEntry(1, 16415, 64) \o <<0, 0, 0, 128>> \o <<255, 255, 255, 255>>
         \o <<255, 255, 255, 127>> \o <<1, 0, 0, 128>> \o <<0, 0, 0, 128>>,
     BenchEntry(1, 9729, 16) \o <<57, 48, 0, 0, 0, 0, 0, 0>>,
     BenchEntry(1, 9729, 0) \o <<57, 48, 0, 0, 0, 0, 0, 0>>
         \o BenchEntry(1, 9762, 0) \o <<255, 255, 255, 255, 255, 255, 255, 255>>,
     BenchEntry(1, 9729, 0) \o <<57, 48, 0, 0, 0, 0, 0, 0>>
         \o BenchEntry(1, 9762, 0) \o <<1, 2, 3, 4>>,
     BenchEntry(1, 33310, 16) \o <<83, 66>> \o [i \in 1..30 |-> 0],
     BenchEntry(1, 8520, 8) \o <<51, 1, 0, 1>> \o <<35, 0, 0, 0>>
         \o <<254, 255, 255, 0>> \o [i \in 1..20 |-> 0]}

\* values assigned to the attributes control, status, packet_count and data
BenchAssignments ==
    {[control |-> 224, status |-> 0, packet_count |-> 0, data |-> <<>>],
     [control |-> 160, status |-> 21, packet_count |-> 3, data |-> <<9, 8, 7, 6>>],
     [control |-> 160, status |-> 0, packet_count |-> 0, data |-> <<1, 2, 3>>],
     [control |-> 192, status |-> 258, packet_count |-> 1,
      data |-> <<1, 34, 38, 0, 232, 3, 0, 0>>]}
    \cup {[control |-> 160, status |-> 0, packet_count |-> 0, data |-> d] :
              d \in BenchReadData}
    \cup {[control |-> 160, status |-> 21, packet_count |-> 0,
           data |-> BenchEntry(1, 9762, 0) \o <<57, 48, 0, 0, 0, 0, 0, 0>>]}

\* the 28 inner bytes of a read request without parameters and payload
BenchInner ==
    DeviceNetData(DeviceDataPacket_new(
        Kwargs(AddrA, 0, LocalAddress, Some(0), CMD_READ_REQUEST, 21504), 1), 7)

\* inner bytes as a peer may send them: [1] is the length in words, [26] the
\* number of parameters
BenchInners ==
    {BenchInner,
     SubSeq(BenchInner, 1, 27),
     BenchInner \o <<0, 0, 0, 0>>,
     [BenchInner EXCEPT ![1] = 8],
     [BenchInner \o <<0, 0, 0, 0>> EXCEPT ![1] = 8, ![26] = 1],
     [BenchInner \o <<0, 0, 0, 0>> EXCEPT ![1] = 8, ![26] = 2]}

BenchEnvelopes ==
    {[protocol |-> PROTOCOL, net_data |-> <<>>],
     [protocol |-> 1, net_data |-> <<5>>],
     [protocol |-> 65535, net_data |-> <<0, 0, 0, 0>>],
     [protocol |-> 1, net_data |-> BenchInner]}
    \cup {[protocol |-> PROTOCOL, net_data |-> nd] : nd \in BenchInners}

BenchIdle == pc = "idle" /\ wire = NoWire /\ got = NoWire

SessionVarsUnchanged ==
    UNCHANGED <<inbox, sent, nrecv, now, pc, self, loc, ret, sessions, auth>>

\* p = DataPacket()
BenchNewPacket ==
    /\ pc = "idle"
    /\ unit_list' = [on |-> TRUE, units |-> DataPacket_new]
    /\ dev' = Off /\ wire' = NoWire /\ got' = NoWire
    /\ UNCHANGED PacketId /\ SessionVarsUnchanged

\* p.add_unit(tag, data, version)
BenchAddUnit ==
    /\ BenchIdle /\ unit_list.on /\ Len(unit_list.units) <= MaxUnits
    /\ \E tag \in BenchTags, data \in BenchPayloads, version \in BenchVersions :
          unit_list' = [unit_list EXCEPT !.units = add_unit(@, tag, data, version)]
    /\ UNCHANGED <<PacketId, dev, wire, got>> /\ SessionVarsUnchanged

\* p.get_data()
BenchGetData ==
    /\ BenchIdle /\ unit_list.on
    /\ wire' = [kind |-> "data", r |-> DataPacket_get_data(unit_list.units, <<>>),
                of |-> unit_list.units, cut |-> FALSE]
    /\ UNCHANGED <<PacketId, unit_list, dev, got>> /\ SessionVarsUnchanged

\* p = Net2DataPacket(protocol=protocol); p.net_data = net_data; p.get_data()
BenchNet2GetData ==
    /\ BenchIdle
    /\ \E e \in BenchEnvelopes :
          wire' = [kind |-> "net2",
                   r |-> Net2DataPacket_get_data(
                             [Net2DataPacket_new(e.protocol)
                                 EXCEPT !.net_data = e.net_data]),
                   of |-> e, cut |-> FALSE]
    /\ unit_list' = Off /\ dev' = Off
    /\ UNCHANGED <<PacketId, got>> /\ SessionVarsUnchanged

\* p = DeviceDataPacket(**kwargs)
NewDevice(kwargs) ==
    /\ pc = "idle" /\ PacketId < MaxPid
    /\ \E kw \in kwargs :
          /\ dev' = [on |-> TRUE, kw |-> kw, assigned |-> FALSE,
                     p |-> DeviceDataPacket_new(kw, PacketId)]
          /\ PacketId' = PacketId_after(kw, PacketId)
    /\ unit_list' = Off /\ wire' = NoWire /\ got' = NoWire
    /\ SessionVarsUnchanged

BenchNewDevice == NewDevice(BenchKwargs)

\* p.add_param(param)
BenchAddParam ==
    /\ BenchIdle /\ dev.on /\ Len(dev.p.params) < MaxParams
    /\ \E param \in BenchParams : dev' = [dev EXCEPT !.p = add_param(@, param)]
    /\ UNCHANGED <<PacketId, unit_list, wire, got>> /\ SessionVarsUnchanged

\* p.control = ...; p.status = ...; p.packet_count = ...; p.data = ...
BenchAssign ==
    /\ BenchIdle /\ dev.on /\ ~dev.assigned
    /\ \E a \in BenchAssignments :
          dev' = [dev EXCEPT !.assigned = TRUE,
                             !.p.control = a.control, !.p.status = a.status,
                             !.p.packet_count = a.packet_count, !.p.data = a.data]
    /\ UNCHANGED <<PacketId, unit_list, wire, got>> /\ SessionVarsUnchanged

\* p.get_data()
BenchDeviceGetData ==
    /\ BenchIdle /\ dev.on
    /\ wire' = [kind |-> "device", r |-> DeviceDataPacket_get_data(dev.p),
                of |-> Message(dev.p), cut |-> FALSE]
    /\ UNCHANGED <<PacketId, unit_list, dev, got>> /\ SessionVarsUnchanged

\* the last byte of the encoded bytes is lost
BenchTruncate ==
    /\ pc = "idle" /\ wire # NoWire /\ got = NoWire
    /\ wire.r.err = NoExc /\ ~wire.cut
    /\ wire' = [wire EXCEPT !.cut = TRUE,
                            !.r.bytes = SubSeq(@, 1, Len(@) - 1)]
    /\ UNCHANGED <<PacketId, unit_list, dev, got>> /\ SessionVarsUnchanged

\* DataPacket(data=b), Net2DataPacket(data=b), DeviceDataPacket(data=b)
BenchDecode ==
    /\ pc = "idle" /\ wire # NoWire /\ got = NoWire /\ wire.r.err = NoExc
    /\ got' = [kind |-> wire.kind, of |-> wire.of, cut |-> wire.cut,
               r |-> CASE wire.kind = "data" -> DataPacket_init(wire.r.bytes)
                       [] wire.kind = "net2" -> Net2DataPacket_init(wire.r.bytes)
                       [] OTHER -> DeviceDataPacket_init(wire.r.bytes)]
    /\ UNCHANGED <<PacketId, unit_list, dev, wire>> /\ SessionVarsUnchanged

\* Net2DataPacket(data=b) of the bytes of a frame built unit by unit
BenchNet2Decode ==
    /\ pc = "idle" /\ wire # NoWire /\ got = NoWire /\ wire.r.err = NoExc
    /\ wire.kind = "data"
    /\ got' = [kind |-> "envelope", of |-> wire.of, cut |-> wire.cut,
               r |-> Net2DataPacket_init(wire.r.bytes)]
    /\ UNCHANGED <<PacketId, unit_list, dev, wire>> /\ SessionVarsUnchanged

\* datagrams as a peer may send them: no header, another header, no unit, the
\* end-unit alone (version 0 and 15), a unit without end-unit after it, an
\* end-unit with a payload, a unit longer than the bytes that follow, a byte
\* left over, two end-units, and a unit with its end-unit
BenchFrames ==
    {<<>>, <<83, 77>>, <<83, 77, 66, 0, 0, 0, 0, 0>>, HEADER,
     HEADER \o <<0, 0, 0, 0>>,
     HEADER \o <<0, 0, 0, 15>>,
     HEADER \o <<0, 2, 0, 16, 0, 9>>,
     HEADER \o <<0, 2, 0, 16, 0, 9>> \o <<0, 1, 0, 0, 7>>,
     HEADER \o <<0, 5, 0, 16, 1, 2>>,
     HEADER \o <<0, 0, 0, 0>> \o <<0>>,
     HEADER \o <<0, 0, 0, 0>> \o <<0, 0, 0, 0>>,
     HEADER \o <<0, 2, 0, 16, 0, 9>> \o <<0, 0, 0, 0>>}

\* DataPacket(data=b) of a received datagram
BenchDecodeFrame ==
    /\ pc = "idle"
    /\ \E b \in BenchFrames :
          got' = [kind |-> "frame", of |-> b, cut |-> FALSE, r |-> DataPacket_init(b)]
    /\ unit_list' = Off /\ dev' = Off /\ wire' = NoWire
    /\ UNCHANGED PacketId /\ SessionVarsUnchanged

\* p = DeviceDataPacket(data=b); p.decode_read_response()
BenchReadResponse ==
    /\ pc = "idle" /\ got # NoWire /\ got.kind = "device" /\ ~got.cut
    /\ got.r.err = NoExc
    /\ got' = [kind |-> "entries", of |-> got.r, cut |-> FALSE,
               r |-> decode_read_response(got.r)]
    /\ UNCHANGED <<PacketId, unit_list, dev, wire>> /\ SessionVarsUnchanged

\* DeviceDataPacket(data=b) of the bytes of an envelope
BenchDeviceDecode ==
    /\ pc = "idle" /\ wire # NoWire /\ got = NoWire /\ wire.r.err = NoExc
    /\ wire.kind = "net2"
    /\ got' = [kind |-> "inner", of |-> wire.of, cut |-> wire.cut,
               r |-> DeviceDataPacket_init(wire.r.bytes)]
    /\ UNCHANGED <<PacketId, unit_list, dev, wire>> /\ SessionVarsUnchanged

InitCodec ==
    /\ PacketId = 1 /\ inbox = <<>> /\ sent = <<>> /\ nrecv = 0 /\ now = 0
    /\ pc = "idle" /\ self = 0 /\ loc = NoCall /\ ret = NoCall
    /\ sessions = <<>> /\ auth = <<>>
    /\ unit_list = Off /\ dev = Off /\ wire = NoWire /\ got = NoWire

NextCodec ==
    \/ BenchNewPacket \/ BenchAddUnit \/ BenchGetData \/ BenchNet2GetData
    \/ BenchNewDevice \/ BenchAddParam \/ BenchAssign \/ BenchDeviceGetData
    \/ BenchTruncate \/ BenchDecode \/ BenchNet2Decode
    \/ BenchDeviceDecode \/ BenchReadResponse \/ BenchDecodeFrame

SpecCodec == InitCodec /\ [][NextCodec]_vars

(***************************************************************************)
(* The session programs: Inverter objects of an earlier discovery, the     *)
(* calls made on them, and the datagrams of the devices.                   *)
(***************************************************************************)
\* one entry of a read response: the 8-byte sub-header and the value block
Entry(cls, code, data_type, timestamp, value) ==
    <<cls>> \o WordBytesLE(code) \o <<data_type>> \o PackL(W(timestamp)) \o value

ReadReply(obj, data) ==
    FrameOf(Reply(LocalAddress, AddrA, 0, CMD_READ_RESPONSE, obj, 0, 0,
                  <<W(0), W(0)>>, data))

DropLast(b) == SubSeq(b, 1, Len(b) - 1)

OtherClient == Address(1, W(654321))

LoginOk == FrameOf(Reply(LocalAddress, AddrA, JOB_NUM_LOGIN, CMD_JOB_RESPONSE,
                         OBJ_LOGIN, 0, 0, <<>>, <<>>))

LoginOther == FrameOf(Reply(OtherClient, AddrA, JOB_NUM_LOGIN, CMD_JOB_RESPONSE,
                            OBJ_LOGIN, 0, 0, <<>>, <<>>))

LoginFrames == {LoginOk, LoginOther, DropLast(LoginOk)}

UserTypes == {136, 187, 0}

\* "0000", "zz", "abc"
Passwords == {<<48, 48, 48, 48>>, <<122, 122>>, <<97, 98, 99>>}

DayYieldEntry(data_type, value) == Entry(1, CODE_DAY_YIELD, data_type, 1000, value)

DayYield12345000 == ReadReply(21504, DayYieldEntry(0, PackQ(W(12345000))))

DayYieldBig ==
    ReadReply(21504, DayYieldEntry(64, PackQ(Wide(FALSE, 1, 2, 3, 65535))))

DayYieldUnknown == ReadReply(21504, DayYieldEntry(0, PackQ(U64Max)))

DayYieldTextTag == ReadReply(21504, DayYieldEntry(16, PackQ(W(12345000))))

TotalYield7 ==
    ReadReply(21504, Entry(1, CODE_TOTAL_YIELD, 0, 1000, PackQ(W(7))))

Five(a, b) == Packl(a) \o Packl(b) \o Packl(W(0)) \o Packl(W(0)) \o Packl(W(0))

DcData ==
    ReadReply(21376,
        Entry(1, CODE_DC_POWER, 64, 1000, Five(W(1500), W(0)))
        \o Entry(1, CODE_DC_INPUT_VOLTAGE, 64, 1000, Five(W(40012), W(0)))
        \o Entry(1, CODE_DC_INPUT_CURRENT, 64, 1000, Five(W(3750), W(0))))

ReadFrames ==
    {DayYield12345000, DayYieldBig, DayYieldUnknown, DayYieldTextTag, TotalYield7,
     DcData, DropLast(DayYield12345000)}

ArriveLogin == ArriveFrom(LoginFrames)

ArriveRead == ArriveFrom(ReadFrames)

Login == CallLogin(UserTypes, Passwords)

Read == CallRead(ReadOps)

ReadDayYield == CallRead({"get_day_yield"})

InitSession(addresses) ==
    /\ PacketId = 1 /\ inbox = <<>> /\ sent = <<>> /\ nrecv = 0 /\ now = 0
    /\ pc = "idle" /\ self = 0 /\ loc = NoCall /\ ret = NoCall
    /\ sessions = [i \in 1..Len(addresses) |-> Inverter(addresses[i])]
    /\ auth = [i \in 1..Len(addresses) |-> NewAuth]
    /\ unit_list = Off /\ dev = Off /\ wire = NoWire /\ got = NoWire

InitLogin == InitSession(<<AddrA, AddrB>>)

NextLogin ==
    \/ Login \/ LoginRecv \/ CallLogout \/ ReadDayYield \/ ReadRecv \/ ArriveLogin

SpecLogin == InitLogin /\ [][NextLogin]_vars

InitRead == InitSession(<<AddrA>>)

NextRead == Read \/ ReadRecv \/ ArriveRead

SpecRead == InitRead /\ [][NextRead]_vars

PageReply(packet_count, data) ==
    FrameOf(Reply(LocalAddress, AddrA, 0, CMD_READ_RESPONSE, 28672, 0,
                  packet_count, <<W(0), W(0)>>, data))

\* one 12-byte record: a timestamp and a counter
PageRecord(timestamp, energy) == PackL(W(timestamp)) \o PackQ(W(energy))

PageFrames ==
    {PageReply(3, PageRecord(300, 10) \o PageRecord(600, 25)),
     PageReply(2, PageRecord(900, 40)),
     PageReply(1, <<>>),
     PageReply(0, PageRecord(1200, 55)),
     PageReply(1, <<0, 0, 0, 0, 0, 0, 0, 0>>)}

ArrivePage == ArriveFrom(PageFrames)

Page == CallPage(PageOps, {0}, {86400})

InitPage == InitSession(<<AddrA>>)

NextPage == Page \/ PageRecv \/ ArrivePage

SpecPage == InitPage /\ [][NextPage]_vars

DetectReply(source) ==
    FrameOf(Reply(DetectSource, source, 0, CMD_READ_RESPONSE, 0, 0, 0,
                  <<W(0), W(0)>>, <<>>))

DetectFrames == {DetectReply(AddrA), DetectReply(AddrB)}

ArriveDetect == ArriveTimed(DetectFrames)

Detect == DetectStart({1})

InitDetect == InitSession(<<>>)

NextDetect == Detect \/ DetectTop \/ DetectSelect \/ Tick \/ ArriveDetect

SpecDetect == InitDetect /\ [][NextDetect]_vars

\* a process that discovers, reads and logs out, and builds packets of its own
IdsKwargs ==
    {Kwargs(AddrA, 0, LocalAddress, Null, CMD_READ_REQUEST, 21504),
     Kwargs(AddrA, 0, LocalAddress, Some(0), CMD_READ_REQUEST, 21504),
     Kwargs(LocalAddress, 1, AddrB, Some(5), CMD_JOB_RESPONSE, 65533)}

IdsNewDevice == NewDevice(IdsKwargs)

ArriveIds == ArriveTimed({DetectReply(AddrB)})

DetectOnce == DetectStart({1})

InitIds == InitSession(<<AddrA>>)

NextIds ==
    \/ DetectOnce \/ DetectTop \/ DetectSelect \/ Tick \/ ArriveIds
    \/ CallLogout \/ IdsNewDevice

SpecIds == InitIds /\ [][NextIds]_vars

\* a process that logs in, reads, pages and discovers while well-formed and
\* malformed datagrams arrive: a frame that lost its last byte, a frame
\* without a unit of tag TAG_NET_2, an envelope of another protocol, and read
\* responses with two entries, with none, with another code and with class 3
NoEnvelopeFrame == DataPacket_get_data(DataPacket_new, <<>>).bytes

NotDeviceFrame ==
    Net2DataPacket_get_data(
        [Net2DataPacket_new(1) EXCEPT !.net_data = BenchInner]).bytes

TwoYields ==
    ReadReply(21504, DayYieldEntry(0, PackQ(W(5))) \o DayYieldEntry(0, PackQ(W(6))))

NoEntries == ReadReply(21504, <<>>)

DcClass3 ==
    ReadReply(21376, Entry(3, CODE_DC_POWER, 64, 1000, Five(W(1500), W(0))))

UndecodableFrames == {DropLast(DayYield12345000), NoEnvelopeFrame, NotDeviceFrame}

FatalFrames ==
    UndecodableFrames \cup {DayYield12345000, TwoYields, NoEntries, TotalYield7, DcClass3}

Detecting == pc \in {"detect_top", "detect_select"}

\* a datagram arrives while a session operation waits for its response
ArriveFatal ==
    /\ pc \in {"login_recv", "read_recv", "page_recv"} /\ inbox = <<>>
    /\ ArriveFrom(FatalFrames)

\* a datagram arrives while the discovery has nothing to read
ArriveFatalTimed ==
    inbox = <<>> /\ ArriveTimed(UndecodableFrames \cup {DetectReply(AddrA)})

\* only detect_inverters reads the clock
TickDetecting == Detecting /\ Tick

LoginUser == CallLogin({136}, {<<48, 48, 48, 48>>})

InitFatal == InitSession(<<AddrA>>)

NextFatal ==
    \/ LoginUser \/ LoginRecv \/ Read \/ ReadRecv \/ Page \/ PageRecv
    \/ Detect \/ DetectTop \/ DetectSelect \/ TickDetecting
    \/ ArriveFatal \/ ArriveFatalTimed

SpecFatal == InitFatal /\ [][NextFatal]_vars

\* a process that discovers while responses and datagrams that are no frames
\* of the protocol arrive; the interpreter runs the next statement of the
\* loop, select returns when a datagram is readable or the wait is over, and
\* the clock moves on
ArriveDiscover == ArriveTimed({DetectReply(AddrA), NoEnvelopeFrame})

NextDiscover == Detect \/ DetectTop \/ DetectSelect \/ Tick \/ ArriveDiscover

\* when DetectSelect can take its step, and the steps that are its steps
SelectEnabled == pc = "detect_select" /\ (inbox # <<>> \/ now >= loc.end)

SelectReturns == pc = "detect_select" /\ pc' # "detect_select"

\* WF_pc(DetectSelect), with ENABLED <<DetectSelect>>_pc written out
SelectFair == []<>(~SelectEnabled) \/ []<><<SelectReturns>>_pc

SpecDiscover ==
    /\ InitDetect /\ [][NextDiscover]_vars
    /\ WF_vars(DetectTop) /\ WF_vars(Tick) /\ SelectFair

\* a process that runs long: it builds one request after the other, each
\* without a packet_id, encodes it, and the peer decodes the bytes
MaxRequests == 32769

\* p = DeviceDataPacket(source=..., destination=..., command=..., obj=...)
RequestNew ==
    /\ pc = "idle" /\ PacketId < MaxRequests
    /\ \E kw \in {Kwargs(AddrA, 0, LocalAddress, Null, CMD_READ_REQUEST, 21504)} :
          /\ dev' = [on |-> TRUE, kw |-> kw, assigned |-> FALSE,
                     p |-> DeviceDataPacket_new(kw, PacketId)]
          /\ PacketId' = PacketId_after(kw, PacketId)
    /\ unit_list' = Off /\ wire' = NoWire /\ got' = NoWire
    /\ SessionVarsUnchanged

NextCounter == RequestNew \/ BenchDeviceGetData \/ BenchDecode

SpecCounter == InitCodec /\ [][NextCounter]_vars

(***************************************************************************)
(* C1: a well-formed device request that get_data() encodes is decoded by  *)
(* DeviceDataPacket(data=...) to a message equal to it in every field,     *)
(* parameters (also negative ones) and payload included.                   *)
(***************************************************************************)
WellFormedRequest(m) ==
    /\ m.job_num \in 0..15 /\ m.packet_id \in 0..32767
    /\ \A i \in 1..Len(m.params) : Fitsl(m.params[i])
    /\ Len(m.data) % 4 = 0

C1_DeviceRoundTrip ==
    (got # NoWire /\ got.kind = "device" /\ ~got.cut /\ WellFormedRequest(got.of))
        => (got.r.err = NoExc /\ Message(got.r) = got.of)

(***************************************************************************)
(* C2: the bytes get_data() produces for a packet's unit list decode, with *)
(* DataPacket(data=...), to the same unit list: same order, tag, version   *)
(* and payload.                                                            *)
(***************************************************************************)
C2_FrameRoundTrip ==
    (got # NoWire /\ got.kind = "data" /\ ~got.cut)
        => (got.r.err = NoExc /\ got.r.units = got.of)

C2_Witness ==
    /\ got # NoWire /\ got.kind = "data" /\ ~got.cut
    /\ Len(got.of) = 3
    /\ got.of[2].data = Null /\ got.of[2].version = 15 /\ got.of[2].tag = 4095
    /\ got.of[3].data = Some(<<1, 2, 3>>)
    /\ got.r.units = got.of

(***************************************************************************)
(* C3: the bytes any of the three encoders produces, with the last byte    *)
(* removed, are rejected by the decoder: no unit list, no message.         *)
(***************************************************************************)
C3_TruncationRejected ==
    (got # NoWire /\ got.cut) => got.r.err # NoExc

C3_Witness ==
    /\ got # NoWire /\ got.cut /\ got.kind = "data"
    /\ Len(got.of) = 2 /\ got.of[2] = DataUnit(TAG_END, 0, Null)
    /\ got.r.err.exc = "MalformedPacketError"

(***************************************************************************)
(* C4 as the specification states it: a discovery returns exactly the N    *)
(* responses that became readable before its deadline, in their order,     *)
(* each with its source address, and none of the later ones.  Responses    *)
(* are decodable, those before the deadline have distinct sources, and     *)
(* none arrives at the deadline itself.                                    *)
(***************************************************************************)
DetectReturned ==
    pc = "idle" /\ ret.op = "detect_inverters" /\ ret.outcome = "returned"

SourceOf(frame) == DeviceDataPacket_init(frame).source

ArrivedWhen(w) == {k \in 1..Len(loc.at) : loc.at[k] = w}

C4_ExactlyN ==
    (/\ DetectReturned
     /\ \A k \in 1..Len(loc.arrived) : DeviceDataPacket_init(loc.arrived[k]).err = NoExc
     /\ \A j, k \in ArrivedWhen("before") :
           j # k => SourceOf(loc.arrived[j]) # SourceOf(loc.arrived[k])
     /\ ArrivedWhen("at") = {})
        => /\ Len(ret.value) = Cardinality(ArrivedWhen("before"))
           /\ \A k \in 1..Len(ret.value) :
                 ret.value[k].address = SourceOf(loc.arrived[k])

(***************************************************************************)
(* C4, amended: a discovery returns one session per response it has read,  *)
(* in arrival order, each with that response's source address, and it is   *)
(* about to read only after a clock check that found the deadline not      *)
(* passed; how many of the responses it has read when a check finds the    *)
(* deadline passed is not fixed by when they arrived.                      *)
(***************************************************************************)
C4_ReturnsResponsesRead ==
    /\ pc = "detect_select" => (loc.wait >= 0 /\ loc.wait <= loc.end)
    /\ DetectReturned =>
          /\ Len(ret.value) = Len(loc.read) /\ nrecv = Len(loc.read)
          /\ Len(loc.read) <= Len(loc.arrived)
          /\ sessions = ret.value
          /\ \A k \in 1..Len(loc.read) :
                /\ loc.read[k] = loc.arrived[k]
                /\ ret.value[k] = Inverter(SourceOf(loc.read[k]))

C4_Witness ==
    /\ DetectReturned
    /\ loc.at = <<"before", "before", "after">>
    /\ Len(ret.value) = 2 /\ Len(inbox) = 1
    /\ ret.value[1].address = AddrA /\ ret.value[2].address = AddrB

(***************************************************************************)
(* C5: a historical read sends one request and then receives one frame at  *)
(* a time; it goes on receiving only after frames whose packets-remaining  *)
(* field is not zero and returns right after the first frame whose field   *)
(* is zero.  For the fields 3, 2, 1, 0 it returns after exactly 4 frames   *)
(* and leaves a later frame unread.                                        *)
(***************************************************************************)
C5_PaginationFrameCount ==
    /\ pc = "page_recv" =>
          /\ Len(sent) = 1 /\ nrecv = Len(loc.counts)
          /\ \A k \in 1..Len(loc.counts) : loc.counts[k] # 0
    /\ (pc = "idle" /\ ret.op \in PageOps /\ ret.outcome = "returned") =>
          /\ Len(sent) = 1 /\ nrecv = Len(loc.counts) /\ nrecv > 0
          /\ loc.counts[nrecv] = 0
          /\ \A k \in 1..(nrecv - 1) : loc.counts[k] # 0

C5_Witness ==
    /\ pc = "idle" /\ ret.op \in PageOps /\ ret.outcome = "returned"
    /\ loc.counts = <<3, 2, 1, 0>> /\ nrecv = 4 /\ inbox # <<>>

(***************************************************************************)
(* C6: get_day_yield sends a read request for object 0x5400 with the       *)
(* parameters 0x262200 and 0x2622FF; when the response it receives has     *)
(* object 0x5400 and a payload of one entry of counter type with code      *)
(* 0x2622 and a 64-bit counter v other than all ones, it returns v; for    *)
(* the response with v = 12345000 it returns 12345000.                     *)
(***************************************************************************)
OneCounterEntry(p) ==
    /\ p.err = NoExc /\ p.obj = 21504 /\ Len(p.data) = 16
    /\ UnpackH(p.data, 1) = 9762 /\ ByteAt(p.data, 3) \notin {8, 16}
    /\ UnpackQ(p.data, 8) # U64Max

DayYieldDone == pc = "idle" /\ ret.op = "get_day_yield"

C6_DayYieldEndToEnd ==
    DayYieldDone =>
       /\ Len(sent) = 1
       /\ \E request \in {DeviceDataPacket_init(sent[1])} :
             /\ request.err = NoExc /\ request.command = 0 /\ request.obj = 21504
             /\ request.params = <<W(2499072), W(2499327)>>
       /\ "datagram" \in DOMAIN loc =>
             \E response \in {DeviceDataPacket_init(loc.datagram)} :
                /\ OneCounterEntry(response) =>
                      ret = Returned("get_day_yield",
                                     IntData(UnpackQ(response.data, 8)))
                /\ (OneCounterEntry(response)
                      /\ Slice(response.data, 8, 16) = <<168, 94, 188, 0, 0, 0, 0, 0>>) =>
                      ret.value = IntData(Wide(FALSE, 24232, 188, 0, 0))

C6_Witness ==
    /\ DayYieldDone /\ "datagram" \in DOMAIN loc
    /\ loc.datagram = DayYield12345000
    /\ OneCounterEntry(DeviceDataPacket_init(loc.datagram))
    /\ ret = Returned("get_day_yield", IntData(W(12345000)))

(***************************************************************************)
(* C7 as the specification states it: LoggedOut is terminal; once logout() *)
(* has been called on a session no later operation changes its state.      *)
(***************************************************************************)
C7_LoggedOutTerminal ==
    [][\A i \in 1..Len(auth) :
          auth[i].state = "LoggedOut" => auth'[i].state = "LoggedOut"]_vars

(***************************************************************************)
(* C7, amended: a session becomes Authenticated only by a login whose      *)
(* response is addressed to the session's local address, becomes LoggedOut *)
(* only by logout(), never returns to Unauthenticated, and a read changes  *)
(* no session's state; a login after logout() can make the session         *)
(* Authenticated again.                                                    *)
(***************************************************************************)
C7_SessionTransitions ==
    [][\A i \in 1..Len(auth) :
          /\ auth'[i].state = "Unauthenticated" => auth[i].state = "Unauthenticated"
          /\ (auth'[i].state = "Authenticated" /\ auth[i].state # "Authenticated") =>
                /\ pc = "login_recv" /\ self = i /\ "response" \in DOMAIN loc'
                /\ loc'.response.err = NoExc
                /\ loc'.response.destination = sessions[i].local_address
          /\ (auth'[i].state = "LoggedOut" /\ auth[i].state # "LoggedOut") =>
                (pc = "idle" /\ ret'.op = "logout" /\ self' = i)
          /\ (pc = "read_recv" \/ pc' = "read_recv") => auth'[i] = auth[i]]_vars

C7_Witness ==
    \E i \in 1..Len(auth) : auth[i].state = "Authenticated" /\ auth[i].relogin

(***************************************************************************)
(* C8: a DeviceDataPacket built without a packet_id gets the value of the  *)
(* counter and the counter goes up by one, whichever session or discovery  *)
(* builds it; a packet built with a packet_id (0 also) carries that id and *)
(* leaves the counter alone; decoding a received datagram, and every other *)
(* step, leaves the counter alone.                                         *)
(***************************************************************************)
C8_PacketIdCounter ==
    [][/\ (pc = "idle" /\ loc' # loc) =>
             /\ "packet" \in DOMAIN loc' /\ loc'.packet.packet_id = PacketId
             /\ sent' # <<>>
             /\ DeviceDataPacket_init(sent'[1]).packet_id = PacketId
             /\ PacketId' = PacketId + 1
       /\ dev' # dev =>
             IF dev'.kw.packet_id.isNone
             THEN dev'.p.packet_id = PacketId /\ PacketId' = PacketId + 1
             ELSE dev'.p.packet_id = dev'.kw.packet_id.v /\ PacketId' = PacketId
       /\ nrecv' = nrecv + 1 => PacketId' = PacketId
       /\ (~(pc = "idle" /\ loc' # loc) /\ dev' = dev) => PacketId' = PacketId]_vars

C8_Witness ==
    /\ dev # Off /\ dev.kw.packet_id = Some(0) /\ dev.p.packet_id = 0
    /\ PacketId = 3 /\ ret.op = "logout"
    /\ sessions # <<>> /\ sessions[1].address = AddrB

(***************************************************************************)
(* C9: every login() that has finished sent one job request (object 65533, *)
(* job number 1, four parameters: the login kind, 300, the time, 0) and    *)
(* received once; for a decodable response it returned normally, and it    *)
(* counted as a success when the response's destination is the session's   *)
(* local address.                                                          *)
(***************************************************************************)
C9_LoginOutcome ==
    (pc = "idle" /\ ret.op = "login") =>
       /\ Len(sent) = 1 /\ nrecv = 1
       /\ \E request \in {DeviceDataPacket_init(sent[1])} :
             /\ request.err = NoExc /\ request.command = CMD_JOB_REQUEST
             /\ request.obj = 65533 /\ request.job_num = 1
             /\ Len(request.params) = 4
             /\ request.params[1] \in {W(7), W(10)}
             /\ request.params[2] = W(300) /\ request.params[3] = W(now)
             /\ request.params[4] = W(0)
       /\ ("response" \in DOMAIN loc /\ loc.response.err = NoExc) =>
             /\ ret.outcome = "returned"
             /\ loc.response.destination = sessions[self].local_address =>
                   auth[self].state = "Authenticated"

(***************************************************************************)
(* C10: each typed read sends once, a read request with the object id of   *)
(* the read and two parameters, before it receives, and receives once,     *)
(* whatever the response is.                                               *)
(***************************************************************************)
ReadObject ==
    [get_day_yield |-> 21504, get_total_yield |-> 21504, get_dc_data |-> 21376,
     get_ac_data |-> 20736, get_ac_total_power |-> 20736, get |-> 22528]

ReadRequestSent(op) ==
    /\ Len(sent) = 1
    /\ \E request \in {DeviceDataPacket_init(sent[1])} :
          /\ request.err = NoExc /\ request.command = 0
          /\ request.obj = ReadObject[op] /\ Len(request.params) = 2

C10_OneRequestOneResponse ==
    /\ pc = "read_recv" => (nrecv = 0 /\ ReadRequestSent(loc.op))
    /\ (pc = "idle" /\ ret.op \in ReadOps) => (nrecv = 1 /\ ReadRequestSent(ret.op))

C10_Witness ==
    /\ pc = "idle" /\ ret.op = "get" /\ ret.outcome = "returned"
    /\ nrecv = 1 /\ Len(sent) = 1 /\ inbox # <<>>

(***************************************************************************)
(* C11: logout() sends one request (command job-logoff, object 65533, job  *)
(* number 3, the one parameter -1), receives nothing and returns normally; *)
(* a datagram that arrives after it stays on the socket, behind whatever   *)
(* was there.                                                              *)
(***************************************************************************)
IsPrefix(a, b) == Len(a) <= Len(b) /\ SubSeq(b, 1, Len(a)) = a

LogoutDone(r, p) == p = "idle" /\ r.op = "logout"

C11_LogoutFireAndForget ==
    [][LogoutDone(ret', pc') =>
          /\ ret' = Returned("logout", NoData)
          /\ nrecv' = 0 /\ IsPrefix(inbox, inbox')
          /\ Len(sent') = 1
          /\ \E request \in {DeviceDataPacket_init(sent'[1])} :
                /\ request.err = NoExc /\ request.command = 14
                /\ request.obj = 65533 /\ request.job_num = 3
                /\ Len(request.params) = 1
                /\ Unpackl(request.packet.net_data, 28) = Wide(TRUE, 1, 0, 0, 0)]_vars

C11_Witness ==
    /\ LogoutDone(ret, pc) /\ ret.outcome = "returned"
    /\ nrecv = 0 /\ Len(sent) = 1 /\ inbox = <<LoginOk>>

\* the units that a frame encoded by bench action BenchNet2GetData decodes to
Net2Encoded == wire.kind = "net2" /\ ~wire.cut /\ wire.r.err = NoExc

EnvelopePayload(e) == Some(WordBytesBE(e.protocol) \o e.net_data)

(* C12: the frame that Net2DataPacket.get_data() produces for a new envelope
   (protocol_id, inner_bytes) holds exactly one unit before the end-unit, and
   that unit's payload is the 2-byte big-endian protocol id followed by
   inner_bytes.  As stated. *)
C12_SoleUnit ==
    Net2Encoded =>
        \E frame \in {DataPacket_init(wire.r.bytes)} :
            /\ frame.err = NoExc /\ Len(frame.units) = 1
            /\ frame.units[1].data = EnvelopePayload(wire.of)

(* C12, amended: the frame holds exactly two units before the end-unit: the
   group unit of every new DataPacket (tag 42, version 0, payload 00 00 00 01)
   and after it the one unit of tag 1, version 0, whose payload is the 2-byte
   big-endian protocol id followed by inner_bytes. *)
C12_GroupThenEnvelope ==
    Net2Encoded =>
        \E frame \in {DataPacket_init(wire.r.bytes)} :
            /\ frame.err = NoExc
            /\ frame.units = <<DataUnit(TAG_0, 0, Some(<<0, 0, 0, DEFAULT_GROUP>>)),
                               DataUnit(TAG_NET_2, 0, EnvelopePayload(wire.of))>>
            /\ wire.r.bytes = HEADER \o <<0, 4, 2, 160, 0, 0, 0, 1>>
                   \o WordBytesBE(2 + Len(wire.of.net_data)) \o <<0, 16>>
                   \o WordBytesBE(wire.of.protocol) \o wire.of.net_data
                   \o <<0, 0, 0, 0>>

C12_Witness ==
    /\ Net2Encoded /\ wire.of.protocol = 1 /\ wire.of.net_data = <<5>>
    /\ Len(wire.r.bytes) = 23

IsEnvelopeUnit(unit) == unit.tag = TAG_NET_2

IsShortUnit(unit) == unit.data.isNone \/ Len(unit.data.v) < 2

EnvelopeUnits(units) == SelectSeq(units, IsEnvelopeUnit)

OtherUnits(units) == SelectSeq(units, LAMBDA unit : ~IsEnvelopeUnit(unit))

\* a frame built unit by unit has been decoded whole as an envelope
EnvelopeDecoded == got # NoWire /\ got.kind = "envelope" /\ ~got.cut

LastOf(seq) == seq[Len(seq)]

ReturnsEnvelopeOf(r, unit) ==
    /\ r.err = NoExc
    /\ r.protocol = unit.data.v[1] * 256 + unit.data.v[2]
    /\ r.net_data = SubSeq(unit.data.v, 3, Len(unit.data.v))

(* C13: when a frame holds more than one unit of tag TAG_NET_2, the decode
   of Net2DataPacket returns the protocol id and inner bytes of the last of
   them in frame order, whatever the earlier ones hold, and a second decode
   of the same bytes gives the same result.  As stated. *)
C13_LastWins ==
    (EnvelopeDecoded /\ Len(EnvelopeUnits(got.of)) > 1) =>
        /\ ~IsShortUnit(LastOf(EnvelopeUnits(got.of)))
        /\ ReturnsEnvelopeOf(got.r, LastOf(EnvelopeUnits(got.of)))
        /\ got.r = Net2DataPacket_init(wire.r.bytes)

\* what the first unit of tag TAG_NET_2 that has fewer than 2 bytes raises
ShortUnitError(unit) ==
    IF unit.data.isNone
    THEN Raise("TypeError", "object of type 'NoneType' has no len()")
    ELSE Raise("MalformedPacketError", "too short net 2 data")

(* C13, amended: when a frame holds more than one unit of tag TAG_NET_2 and
   each of them has at least 2 bytes of payload, the decode returns the
   protocol id and inner bytes of the last of them in frame order and keeps
   the other units in order; when one of them is shorter, the decode fails at
   the first short one (MalformedPacketError for a 1-byte payload, TypeError
   for an absent one), also when the last one is well formed.  A second
   decode of the same bytes gives the same result. *)
C13_LastWinsWhenAllWellFormed ==
    (EnvelopeDecoded /\ Len(EnvelopeUnits(got.of)) > 1) =>
        /\ got.r = Net2DataPacket_init(wire.r.bytes)
        /\ IF SelectSeq(EnvelopeUnits(got.of), IsShortUnit) = <<>>
           THEN /\ ReturnsEnvelopeOf(got.r, LastOf(EnvelopeUnits(got.of)))
                /\ got.r.units = OtherUnits(got.of)
           ELSE got.r.err =
                    ShortUnitError(Head(SelectSeq(EnvelopeUnits(got.of), IsShortUnit)))

C13_Witness ==
    /\ EnvelopeDecoded /\ Len(EnvelopeUnits(got.of)) = 2
    /\ EnvelopeUnits(got.of)[1].data = Some(<<0, 9>>)
    /\ EnvelopeUnits(got.of)[2].data = Some(<<1, 2, 3>>)
    /\ got.r.err = NoExc /\ got.r.protocol = 258 /\ got.r.net_data = <<3>>

(* C14: the decode of Net2DataPacket fails with MalformedPacketError when
   the frame holds no unit of tag TAG_NET_2, and when a unit of that tag has
   a payload of fewer than 2 bytes, for payload length 0 and payload
   length 1. *)
C14_EnvelopeFailures ==
    EnvelopeDecoded =>
        /\ (EnvelopeUnits(got.of) = <<>>) =>
               got.r.err = Raise("MalformedPacketError", "no net 2 protocol found")
        /\ (SelectSeq(EnvelopeUnits(got.of), IsShortUnit) # <<>>) =>
               got.r.err.exc = "MalformedPacketError"

\* get_data() has been called on the device packet dev.p
DeviceEncoded == wire.kind = "device" /\ ~wire.cut

LengthContract(p, nd) ==
    /\ Len(nd) >= 28
    /\ nd[1] = 7 + Len(p.params) + (Len(p.data) \div 4)
    /\ nd[1] * 4 = Len(nd)
    /\ Len(nd) = 28 + 4 * Len(p.params) + Len(p.data)

(* C15: DeviceDataPacket.get_data fails and produces no bytes when the
   payload length is not a multiple of 4; for every packet it encodes, the
   first byte of the inner bytes is 7 + number of parameters + payload
   length / 4, and four times that byte is the length of the inner bytes,
   which is 28 + 4 per parameter + the payload length. *)
C15_EncodeLength ==
    DeviceEncoded =>
        /\ (Len(dev.p.data) % 4 # 0) =>
               /\ wire.r.err = Raise("AssertionError", "len(self.data) % 4 == 0")
               /\ wire.r.bytes = <<>>
        /\ (wire.r.err = NoExc) =>
               \E envelope \in {Net2DataPacket_init(wire.r.bytes)} :
                   /\ envelope.err = NoExc /\ envelope.protocol = PROTOCOL
                   /\ LengthContract(dev.p, envelope.net_data)

C15_Witness ==
    /\ DeviceEncoded /\ wire.r.err = NoExc
    /\ Len(dev.p.params) = 2 /\ Len(dev.p.data) = 8
    /\ Net2DataPacket_init(wire.r.bytes).net_data[1] = 11
    /\ Len(Net2DataPacket_init(wire.r.bytes).net_data) = 44

\* the bytes of an envelope have been decoded whole as a device packet
InnerDecoded == got # NoWire /\ got.kind = "inner" /\ ~got.cut

\* the four conditions on an envelope (protocol, nd)
WrongProtocol(e) == e.protocol # 24677

TooShort(e) == Len(e.net_data) < 28

LengthMismatch(e) == Len(e.net_data) >= 28 /\ e.net_data[1] * 4 # Len(e.net_data)

ParamsOverrun(e) ==
    Len(e.net_data) >= 28 /\ 28 + 4 * e.net_data[26] > Len(e.net_data)

(* C16: DeviceDataPacket(data=...) fails with MalformedPacketError and gives
   no message when the declared length in words times 4 differs from the
   length of the inner bytes, when the inner bytes are shorter than 28, when
   28 + 4 * the declared parameter count exceeds their length, and when the
   protocol id of the envelope is not 24677; an envelope with none of these
   decodes. *)
C16_DecodeLengthChecks ==
    InnerDecoded =>
        IF \/ WrongProtocol(got.of) \/ TooShort(got.of)
           \/ LengthMismatch(got.of) \/ ParamsOverrun(got.of)
        THEN /\ got.r.err.exc = "MalformedPacketError"
             /\ DOMAIN got.r = {"err"}
        ELSE /\ got.r.err = NoExc
             /\ Len(got.r.params) = got.of.net_data[26]

C16_Witness ==
    /\ InnerDecoded /\ ParamsOverrun(got.of)
    /\ ~WrongProtocol(got.of) /\ ~LengthMismatch(got.of)
    /\ got.r.err = Raise("MalformedPacketError", "Bad device data packet params")

\* decode_read_response() has returned the one entry of a decoded response
OneEntryDecoded ==
    /\ got # NoWire /\ got.kind = "entries"
    /\ got.r.err = NoExc /\ Len(got.r.response) = 1

\* the 16-bit word at 0-based offset k of the payload d
Word16(d, k) == d[k + 1] + 256 * d[k + 2]

\* what the claim gives for a 64-bit counter at offset 8
CounterValue(d) ==
    IF \A k \in 9..16 : d[k] = 255 THEN NoData
    ELSE IntData(Wide(FALSE, Word16(d, 8), Word16(d, 10), Word16(d, 12),
                      Word16(d, 14)))

\* what the claim gives for an unsigned and for a signed slot with the 16-bit
\* halves lo and hi
UnsignedSlot(lo, hi) ==
    IF lo = 65535 /\ hi = 65535 THEN NoData ELSE IntData(Wide(FALSE, lo, hi, 0, 0))

SignedSlot(lo, hi) ==
    IF lo = 0 /\ hi = 32768 THEN NoData
    ELSE IF hi < 32768 THEN IntData(Wide(FALSE, lo, hi, 0, 0))
    ELSE IntData(W((hi - 65536) * 65536 + lo))

SlotValues(d, data_type) ==
    [j \in 1..5 |->
        IF data_type = 0
        THEN UnsignedSlot(Word16(d, 4 + 4 * j), Word16(d, 6 + 4 * j))
        ELSE SignedSlot(Word16(d, 4 + 4 * j), Word16(d, 6 + 4 * j))]

(* C17: decode_read_response gives None for a 64-bit counter of all ones and
   the counter itself for every other value; in a block of five unsigned
   integers (type 0x00) exactly the slots equal to 0xFFFFFFFF are None, in a
   block of five signed integers (type 0x40) exactly the slots equal to
   -0x80000000 are None, every other slot keeps its value, and the list has
   five slots in wire order. *)
C17_Sentinels ==
    OneEntryDecoded =>
        \E d \in {got.of.data}, entry \in {got.r.response[1]} :
            /\ (d[4] \notin {16, 8} /\ got.of.obj = 21504) =>
                   entry.data = CounterValue(d)
            /\ (d[4] \in {0, 64} /\ got.of.obj # 21504) =>
                   entry.data = ListData(SlotValues(d, d[4]))

C17_Witness ==
    /\ OneEntryDecoded /\ got.of.obj # 21504 /\ got.of.data[4] = 64
    /\ got.r.response[1].data =
           ListData(<<NoData, IntData(W(-1)), IntData(Wide(FALSE, 65535, 32767, 0, 0)),
                      IntData(Wide(TRUE, 65535, 32767, 0, 0)), NoData>>)

\* a step in which the running operation takes a datagram off the socket
Receives ==
    /\ pc \in {"login_recv", "read_recv", "page_recv", "detect_select"}
    /\ inbox # <<>> /\ inbox' = Tail(inbox)

\* the operation that runs
RunningOp == IF Detecting THEN "detect_inverters" ELSE loc.op

\* the step ends the operation with the exception and without a value
FailsWith(op, exc) == pc' = "idle" /\ ret' = Raised(op, exc)

Fails(op) == pc' = "idle" /\ ret'.op = op /\ ret'.outcome = "raised"

\* the conditions of the claim on the entries r of a decoded read response
EntryViolation(op, r) ==
    \/ op \in {"get_day_yield", "get_total_yield", "get_ac_total_power"}
          /\ Len(r) # 1
    \/ op = "get_day_yield" /\ Len(r) = 1 /\ r[1].code # 9762
    \/ op = "get_total_yield" /\ Len(r) = 1 /\ r[1].code # 9729
    \/ op = "get_dc_data" /\ \E i \in 1..Len(r) : r[i].cls \notin {1, 2}

ViolationFails(op, entries) ==
    (entries.err = NoExc /\ EntryViolation(op, entries.response)) =>
        /\ Fails(op) /\ ret'.exc.exc = "AssertionError"

DecodedFails(op, packet) ==
    IF packet.err # NoExc THEN FailsWith(op, packet.err)
    ELSE pc = "read_recv" => ViolationFails(op, decode_read_response(packet))

(* C18: a session operation or detect_inverters that receives a datagram
   which cannot be decoded (frame, envelope or device message) ends with the
   decoder's exception and returns no value; get_day_yield, get_total_yield
   and get_ac_total_power fail when the decoded response does not hold
   exactly one entry, get_day_yield and get_total_yield when the code of that
   entry is not 0x2622 and 0x2601, get_dc_data when an entry's class is
   neither 1 nor 2. *)
C18_MalformedIsFatal ==
    [][Receives => DecodedFails(RunningOp, DeviceDataPacket_init(Head(inbox)))]_vars

\* get_dc_data has failed on the response with an entry of class 3
C18_Witness ==
    /\ pc = "idle" /\ ret.op = "get_dc_data" /\ ret.outcome = "raised"
    /\ ret.exc = Raise("AssertionError", "r.cls == 1 or r.cls == 2")
    /\ loc.datagram = DcClass3

\* the request of the running discovery, as sent
DiscoveryRequestSent ==
    /\ Len(sent) = 1
    /\ \E request \in {DeviceDataPacket_init(sent[1])} :
          /\ request.err = NoExc
          /\ request.destination = Address(65535, Wide(FALSE, 65535, 65535, 0, 0))
          /\ request.command = 0
          /\ request.params = <<W(0), W(0)>>

\* the discovery starts: one request is sent and nothing has been received;
\* while it runs nothing more is sent
SendsOnceFirst ==
    /\ (pc = "idle" /\ Detecting') => (nrecv' = 0 /\ Len(sent') = 1)
    /\ Detecting => sent' = sent

\* the wait handed to select is the time that remains to the deadline
WaitIsRemainder ==
    (pc = "detect_top" /\ pc' = "detect_select") =>
        (loc'.wait = loc.end - now /\ loc'.wait >= 0 /\ loc'.wait <= loc.end)

DetectEnded(outcomes) ==
    pc = "idle" /\ ret.op = "detect_inverters" /\ ret.outcome \in outcomes

(* C19: detect_inverters sends exactly one read request to the wildcard
   address with the parameters 0 and 0 before it receives anything, every
   wait on the socket is bounded by the time that remains to the deadline,
   and in every execution, whatever arrives and whenever, it eventually
   returns once the deadline has passed.  As stated. *)
C19_EventuallyReturns ==
    /\ [][SendsOnceFirst /\ WaitIsRemainder]_vars
    /\ [](Detecting => DiscoveryRequestSent)
    /\ Detecting ~> (DetectEnded({"returned"}) /\ now > loc.end)

(* C19, amended: the same, but the discovery ends in one of two ways: it
   returns, and then the deadline has passed, or it fails with the decoder's
   exception at the first datagram it reads that cannot be decoded, before or
   after the deadline. *)
C19_EventuallyEnds ==
    /\ [][SendsOnceFirst /\ WaitIsRemainder]_vars
    /\ [](Detecting => DiscoveryRequestSent)
    /\ Detecting ~> DetectEnded({"returned", "raised"})
    /\ [](DetectEnded({"returned"}) => now > loc.end)
    /\ [](DetectEnded({"raised"}) =>
             /\ loc.read # <<>>
             /\ ret.exc = DeviceDataPacket_init(loc.read[Len(loc.read)]).err
             /\ ret.exc # NoExc)

C19_Witness ==
    /\ DetectEnded({"returned"}) /\ now > loc.end /\ Len(loc.inverters) = 2
    /\ nrecv = 2 /\ DiscoveryRequestSent

\* DataPacket(data=...) has been applied to the bytes FrameInput
FrameDecoded == got # NoWire /\ got.kind \in {"data", "frame"}

FrameInput == IF got.kind = "frame" THEN got.of ELSE wire.r.bytes

\* the units that tile the bytes b from the 0-based offset off on, each a
\* 2-byte length, a 2-byte tag word and as many payload bytes as the length
\* says; tiles is FALSE when the bytes end inside a unit
RECURSIVE Tiling(_, _, _)
Tiling(b, off, units) ==
    IF off = Len(b) THEN [tiles |-> TRUE, units |-> units]
    ELSE IF off + 4 > Len(b) \/ off + 4 + (b[off + 1] * 256 + b[off + 2]) > Len(b)
    THEN [tiles |-> FALSE, units |-> <<>>]
    ELSE Tiling(b, off + 4 + (b[off + 1] * 256 + b[off + 2]),
                Append(units,
                       [tag     |-> (b[off + 3] * 256 + b[off + 4]) \div 16,
                        version |-> b[off + 4] % 16,
                        data    |-> IF b[off + 1] * 256 + b[off + 2] = 0 THEN Null
                                    ELSE Some(SubSeq(b, off + 5,
                                              off + 4 + b[off + 1] * 256 + b[off + 2]))]))

HeaderOk(b) == Len(b) >= 4 /\ SubSeq(b, 1, 4) = <<83, 77, 65, 0>>

EndsWithEndUnit(units) ==
    /\ units # <<>>
    /\ units[Len(units)].tag = 0 /\ units[Len(units)].data = Null

FrameRule(b, t, r) ==
    IF HeaderOk(b) /\ t.tiles /\ EndsWithEndUnit(t.units)
    THEN r.err = NoExc /\ r.units = SubSeq(t.units, 1, Len(t.units) - 1)
    ELSE r.err.exc = "MalformedPacketError"

(* C20: DataPacket(data=...) succeeds only if the header is 'SMA\0', the
   units exactly tile the rest of the input, and the last unit is the
   end-unit (tag 0, no payload); then the list is all decoded units but that
   last one, the empty list for a frame of the end-unit alone; in every
   other case the decode fails with MalformedPacketError. *)
C20_EndUnitRule ==
    FrameDecoded =>
        FrameRule(FrameInput,
                  IF HeaderOk(FrameInput) THEN Tiling(FrameInput, 4, <<>>)
                  ELSE [tiles |-> FALSE, units |-> <<>>],
                  got.r)

C20_Witness ==
    /\ FrameDecoded /\ got.kind = "frame"
    /\ got.of = HEADER \o <<0, 0, 0, 0>>
    /\ got.r.err = NoExc /\ got.r.units = <<>>

\* a step in which login or a typed read ends on a datagram it took off the
\* socket
TakesNext == pc \in {"login_recv", "read_recv"} /\ pc' = "idle" /\ inbox # <<>>

(* C21: a session operation takes whatever datagram is next on the socket
   for its response: the receive removes the head of the queue, and login
   counts it as a success when it decodes and its destination is the local
   address, whichever request it answers; so a response to an earlier
   request is consumed by the next call and is taken as a login success. *)
C21_NextFrameIsResponse ==
    [][TakesNext =>
          /\ inbox' = Tail(inbox) /\ nrecv' = nrecv + 1
          /\ (/\ pc = "login_recv" /\ loc'.response.err = NoExc
              /\ loc'.response.destination = sessions[self].local_address) =>
                 /\ ret' = Returned("login", NoData)
                 /\ auth'[self].state = "Authenticated"]_vars

\* the second request of the process, a login, has taken the response to the
\* first request (packet id 1) and counts as a success
C21_Witness ==
    /\ pc = "idle" /\ ret = Returned("login", NoData) /\ PacketId = 3
    /\ loc.packet.packet_id = 2
    /\ loc.response = DeviceDataPacket_init(LoginOk)
    /\ loc.response.packet_id = 1 /\ loc.response.job_num = 1
    /\ auth[self].state = "Authenticated"

(* C22: every outbound request, after any number of requests with an
   automatic packet id, has a packet id in 0..32767, its encoding succeeds,
   and decoding the encoded bytes gives the same packet id back. *)
C22_PacketIdFifteenBits ==
    /\ dev.on => dev.p.packet_id \in 0..32767
    /\ (dev.on /\ wire # NoWire) => wire.r.err = NoExc
    /\ (dev.on /\ got # NoWire /\ got.kind = "device") =>
           (got.r.err = NoExc /\ got.r.packet_id = dev.p.packet_id)

\* decode_read_response() has run on a payload that holds an entry header
EntriesOf == got # NoWire /\ got.kind = "entries" /\ Len(got.of.data) >= 8

\* the value block that the type tag alone selects
TagBlock(tag) ==
    IF tag = 16 THEN "text"
    ELSE IF tag = 8 THEN "status"
    ELSE IF tag \in {0, 64} THEN "five"
    ELSE "none"

BlockSize(k) ==
    IF k \in {"text", "status"} THEN 32
    ELSE IF k = "five" THEN 20
    ELSE IF k = "counter" THEN 8
    ELSE 0

\* the counter register overrides every type tag
OverrideAll(obj, tag) == IF obj = 21504 THEN "counter" ELSE TagBlock(tag)

\* the counter register overrides every type tag but text and status
OverrideRest(obj, tag) ==
    IF tag \in {16, 8} THEN TagBlock(tag) ELSE OverrideAll(obj, tag)

\* the value of the first entry is one of a block of kind k
ValueOfKind(d, data, k) ==
    IF k = "counter" THEN data = CounterValue(d)
    ELSE IF k = "text" THEN data.kind = "str"
    ELSE IF k = "status" THEN data.kind = "list" /\ Len(data.v) <= 8
    ELSE IF k = "five" THEN data = ListData(SlotValues(d, d[4]))
    ELSE data = NoData

\* the payload was decoded with a first value block of kind k: too few bytes
\* for the block fail, the header with exactly the block gives one entry
DecodedAs(d, k) ==
    /\ Len(d) < 8 + BlockSize(k) => got.r.err = ShortBuffer
    /\ Len(d) = 8 + BlockSize(k) =>
          \/ /\ got.r.err = NoExc /\ Len(got.r.response) = 1
             /\ ValueOfKind(d, got.r.response[1].data, k)
          \/ k = "text" /\ got.r.err = Raise("UnicodeDecodeError", "utf-8")

(* C23 as stated: when the object id of the message is 0x5400 the value block
   of an entry is decoded as one 8-byte 64-bit counter whatever the type tag
   is, the text tag 0x10 and the status tag 0x08 included; otherwise the type
   tag alone selects the block (0x10: 32 bytes of text, 0x08: 32 bytes of
   status words, 0x00 / 0x40: 20 bytes of five 32-bit words). *)
C23_CounterOverridesAll ==
    EntriesOf =>
        \E d \in {got.of.data} : DecodedAs(d, OverrideAll(got.of.obj, d[4]))

(* C23 amended: the type tags 0x10 and 0x08 select the 32-byte text block and
   the 32-byte status block whatever the object id is; for every other type
   tag the object id 0x5400 selects the 8-byte 64-bit counter; when the object
   id is not 0x5400 the type tag alone selects the block. *)
C23_CounterOverridesRest ==
    EntriesOf =>
        \E d \in {got.of.data} : DecodedAs(d, OverrideRest(got.of.obj, d[4]))

C23_Witness ==
    /\ EntriesOf /\ got.of.obj = 21504 /\ got.of.data[4] = 16
    /\ Len(got.of.data) = 40 /\ got.r.err = NoExc
    /\ got.r.response[1].data = TextData(<<83, 66>>)

\* the number of entries when sub-headers of 8 bytes and their value blocks
\* tile the payload d exactly from offset off on, and -1 when they do not
RECURSIVE ReadTiles(_, _, _, _)
ReadTiles(d, obj, off, n) ==
    IF off = Len(d) THEN n
    ELSE IF off + 8 > Len(d) THEN -1
    ELSE IF off + 8 + BlockSize(OverrideRest(obj, d[off + 4])) > Len(d) THEN -1
    ELSE ReadTiles(d, obj, off + 8 + BlockSize(OverrideRest(obj, d[off + 4])),
                   n + 1)

ReadFailures ==
    {ShortBuffer, Raise("AssertionError", "offset == len(self.data)"),
     Raise("UnicodeDecodeError", "utf-8")}

(* C24: decode_read_response never parses partially: it ends for every
   payload, and it either fails or returns one entry per 8-byte sub-header,
   the sub-headers and their value blocks tiling the payload exactly; trailing
   bytes that form no complete entry and a last value block that is cut short
   give a failure, never a shortened list. *)
C24_NoPartialParse ==
    (got # NoWire /\ got.kind = "entries") =>
        \E t \in {ReadTiles(got.of.data, got.of.obj, 0, 0)} :
            /\ got.r.err = NoExc => (t # -1 /\ Len(got.r.response) = t)
            /\ got.r.err # NoExc =>
                  (got.r.err \in ReadFailures /\ got.r.response = <<>>)
            /\ t = -1 => got.r.err # NoExc

\* a complete entry of 28 bytes followed by 4 bytes fails, the entry is not
\* returned
C24_Witness ==
    /\ got # NoWire /\ got.kind = "entries"
    /\ got.of.obj # 21504 /\ Len(got.of.data) = 32 /\ got.of.data[4] = 0
    /\ got.r.err = Raise("AssertionError", "offset == len(self.data)")

(* C25: the payload of a login request is always 12 bytes: for every
   user_type in 0..255 and every password login() builds a payload of exactly
   12 bytes (the character codes plus user_type, then zeros), building it
   never fails and the request is sent. *)
C25_LoginPayload ==
    /\ (pc = "idle" /\ ret.op = "login") => Len(sent) = 1
    /\ pc = "login_recv" =>
          /\ Len(sent) = 1 /\ Len(loc.packet.data) = 12
          /\ \A i \in 1..12 : loc.packet.data[i] \in 0..255

\* a process that logs in, reads, pages, logs out and discovers while
\* datagrams arrive; a blocking receive returns within the timeout of the
\* socket, select returns when a datagram is readable or the wait is over,
\* and the clock moves on while the discovery runs
BoundedFrames ==
    {NoEnvelopeFrame, DayYield12345000, PageReply(1, <<>>),
     PageReply(0, PageRecord(1200, 55))}

Waiting == pc \in {"login_recv", "read_recv"}

\* a datagram arrives while an operation waits and has nothing to read
ArriveBounded ==
    /\ inbox = <<>>
    /\ \/ (Waiting \/ pc = "page_recv") /\ ArriveFrom(BoundedFrames)
       \/ ArriveDiscover

\* the process logs out after a call on a session, not right after a
\* discovery
LogoutAfterCall == ret.op # "detect_inverters" /\ CallLogout

NextBounded ==
    \/ LoginUser \/ LoginRecv \/ LogoutAfterCall \/ Read \/ ReadRecv
    \/ Page \/ PageRecv \/ Detect \/ DetectTop \/ DetectSelect
    \/ TickDetecting \/ ArriveBounded

\* WF_pc(LoginRecv \/ ReadRecv), with ENABLED written out: recv returns or
\* raises socket.timeout
RecvFair == []<>(~Waiting) \/ []<><<Waiting /\ pc' = "idle">>_pc

SpecBounded ==
    /\ InitFatal /\ [][NextBounded]_vars
    /\ RecvFair /\ WF_pc(DetectTop) /\ WF_now(TickDetecting) /\ SelectFair

SingleReceiveOps == ReadOps \cup {"login"}

\* the number of receives of the operations that are not historical reads
ReceivesBounded ==
    /\ Waiting => nrecv = 0
    /\ (pc = "idle" /\ ret.op \in SingleReceiveOps) => nrecv <= 1
    /\ (pc = "idle" /\ ret.op = "logout") => nrecv = 0
    /\ pc = "detect_select" => (loc.wait >= 0 /\ loc.wait <= loc.end)

PagingFailures ==
    {Timeout, Raise("AssertionError", "offset == len(response.data)")}
    \cup ({DeviceDataPacket_init(f).err : f \in BoundedFrames} \ {NoExc})

\* how a historical read ends: it returns on a frame with packets-remaining
\* 0, and otherwise it ends by a timeout or a failure to decode
PagingEnds ==
    (pc = "page_recv" /\ pc' = "idle") =>
        \/ /\ ret' = Returned(loc.op, NoData)
           /\ Len(loc'.counts) = nrecv' /\ loc'.counts[nrecv'] = 0
           /\ \A k \in 1..(nrecv' - 1) : loc'.counts[k] # 0
        \/ /\ ret'.outcome = "raised" /\ ret'.exc \in PagingFailures

\* a frame with packets-remaining other than 0 keeps the historical read
\* receiving
PagingGoesOn ==
    (pc = "page_recv" /\ Len(loc'.counts) > Len(loc.counts)
        /\ loc'.counts[Len(loc'.counts)] # 0 /\ ret' = NoCall) =>
            pc' = "page_recv"

(* C26: only the pagination loop is unbounded: login, logout, the typed reads
   and detect_inverters receive a bounded number of times, each receive
   bounded by the timeout, and always end; get_day_data and get_month_data
   go on receiving as long as well-formed frames with packets-remaining other
   than 0 arrive, return only on a frame with packets-remaining 0, and end
   otherwise only by a receive timeout or a failure to decode. *)
C26_OnlyPagingUnbounded ==
    /\ []ReceivesBounded
    /\ (Waiting ~> pc = "idle")
    /\ (Detecting ~> pc = "idle")
    /\ [][PagingEnds /\ PagingGoesOn]_vars

\* a historical read that has consumed four frames and still receives
C26_Witness ==
    /\ pc = "page_recv" /\ nrecv = 4 /\ loc.op = "get_day_data"
    /\ loc.counts = <<1, 1, 1, 1>>

\* the encoded bytes b of a message with the 16-bit status, which follows
\* the 18 bytes before the inner bytes and 18 inner bytes, set to 0
EncodedWithStatus0(b) == [b EXCEPT ![37] = 0, ![38] = 0]

\* a message with a status other than 0 was encoded and the bytes decoded
StatusDecoded ==
    /\ got # NoWire /\ got.kind = "device" /\ ~got.cut
    /\ got.of.status \in 1..65535
    /\ wire.r.bytes[37] + 256 * wire.r.bytes[38] = got.of.status

\* decode_read_response() has run on a decoded message with a status other
\* than 0
StatusEntries ==
    got # NoWire /\ got.kind = "entries" /\ got.of.status # 0

(* C27: a status other than 0 is not fatal: the decode of a device message
   with such a status succeeds where the decode of the same message with
   status 0 succeeds, and gives the same destination, source, job number,
   packets-remaining, packet id, command, object id, parameters and payload;
   only the status differs, and decode_read_response gives the same result. *)
C27_StatusNotFatal ==
    /\ StatusDecoded =>
          \E zero \in
                {DeviceDataPacket_init(EncodedWithStatus0(wire.r.bytes))} :
              /\ zero.err = NoExc /\ got.r.err = NoExc
              /\ zero.status = 0 /\ got.r.status = got.of.status
              /\ Message([got.r EXCEPT !.status = 0]) = Message(zero)
    /\ StatusEntries =>
          got.r = decode_read_response([got.of EXCEPT !.status = 0])

C27_Witness ==
    /\ StatusEntries /\ got.of.status = 21 /\ got.of.obj = 21504
    /\ got.r.err = NoExc /\ Len(got.r.response) = 1
    /\ got.r.response[1].data = IntData(W(12345))

SessionOps == SingleReceiveOps \cup PageOps \cup {"logout"}

\* the request the session operation last called has sent
SessionRequest == loc.op \in SessionOps /\ sent # <<>>

\* only the return of a discovery gives the process other sessions
SessionsKept ==
    sessions' # sessions => (pc = "detect_top" /\ ret'.op = "detect_inverters")

(* C28 as stated: every request a session sends (login, logout, typed read,
   paginated read) carries the local address of the session as source and
   the device address of the session as destination, and no session
   operation changes the addresses of the session. *)
C28_SessionAddressing ==
    /\ [](SessionRequest =>
            \E request \in {DeviceDataPacket_init(sent[1])} :
                /\ request.err = NoExc
                /\ request.source = sessions[self].local_address
                /\ request.destination = sessions[self].address)
    /\ [][SessionsKept]_vars

(* C28 amended: login, the typed reads and the paginated reads send to the
   device address of the session, logout sends to the wildcard address; all
   of them carry the local address of the session as source, and no session
   operation changes the addresses of the session. *)
C28_AddressingButLogout ==
    /\ [](SessionRequest =>
            \E request \in {DeviceDataPacket_init(sent[1])} :
                /\ request.err = NoExc
                /\ request.source = sessions[self].local_address
                /\ request.destination =
                       IF loc.op = "logout" THEN WildcardAddress
                       ELSE sessions[self].address)
    /\ [][SessionsKept]_vars

C28_Witness ==
    /\ pc = "idle" /\ ret = Returned("logout", NoData) /\ loc.op = "logout"
    /\ sessions[self].address = AddrA
    /\ DeviceDataPacket_init(sent[1]).destination = WildcardAddress
    /\ DeviceDataPacket_init(sent[1]).source = LocalAddress

YieldCode ==
    [get_day_yield |-> CODE_DAY_YIELD, get_total_yield |-> CODE_TOTAL_YIELD]

\* get_day_yield or get_total_yield has ended on a datagram
YieldEnded ==
    /\ pc = "idle" /\ ret.op \in DOMAIN YieldCode /\ "datagram" \in DOMAIN loc

\* the entries decode_read_response() gives for a decoded datagram
EntriesOfPacket(p) ==
    IF p.err = NoExc THEN decode_read_response(p)
    ELSE [err |-> p.err, response |-> <<>>]

\* the entries d when they are the one entry of the code the operation
\* expects, and <<>> otherwise
ExpectedOf(op, d) ==
    IF d.err = NoExc /\ Len(d.response) = 1 /\ d.response[1].code = YieldCode[op]
    THEN d.response ELSE <<>>

ExpectedEntry(op, datagram) ==
    ExpectedOf(op, EntriesOfPacket(DeviceDataPacket_init(datagram)))

(* C29: an unknown yield is returned, not an error: for a response with one
   entry of the expected code get_day_yield and get_total_yield return the
   decoded value of the entry, and None when the 64-bit counter is the
   all-ones sentinel. *)
C29_UnknownYieldReturned ==
    YieldEnded =>
        \E e \in {ExpectedEntry(ret.op, loc.datagram)} :
            e # <<>> => ret = Returned(ret.op, e[1].data)

\* a process that discovers on a multicast group that other clients use: a
\* device answers the discovery, another client sends a read request to
\* device A, and device B answers a read of a session
OtherRequest ==
    FrameOf(Reply(AddrA, OtherClient, 0, CMD_READ_REQUEST, 21504, 0, 0,
                  <<W(0), W(0)>>, <<>>))

SessionReply ==
    FrameOf(Reply(LocalAddress, AddrB, 0, CMD_READ_RESPONSE, 21504, 0, 0,
                  <<W(0), W(0)>>, <<>>))

\* a datagram arrives while the discovery has nothing to read
ArriveShared ==
    inbox = <<>> /\ ArriveTimed({DetectReply(AddrA), OtherRequest, SessionReply})

NextShared == Detect \/ DetectTop \/ DetectSelect \/ Tick \/ ArriveShared

SpecShared == InitDetect /\ [][NextShared]_vars

\* the decoded frame is a read response sent to the source address of the
\* discovery request
OwnAnswerPacket(p) ==
    /\ p.err = NoExc /\ p.command = CMD_READ_RESPONSE
    /\ p.destination = DetectSource

OwnAnswer(frame) == OwnAnswerPacket(DeviceDataPacket_init(frame))

SessionOfFrame(frame) == Inverter(DeviceDataPacket_init(frame).source)

RECURSIVE SessionsOf(_)
SessionsOf(frames) ==
    IF frames = <<>> THEN <<>>
    ELSE <<SessionOfFrame(Head(frames))>> \o SessionsOf(Tail(frames))

(* C30 as stated: discovery records only answers to its own request: the
   sessions detect_inverters returns are those of the received frames that
   are read responses (command 1) sent to (189, 123456); another decodable
   device frame received in the window is not returned as a device. *)
C30_OnlyOwnAnswers ==
    DetectReturned => ret.value = SessionsOf(SelectSeq(loc.read, OwnAnswer))

(* C30 amended: discovery records every frame it receives in the window and
   can decode: the sessions detect_inverters returns are those of the source
   addresses of all received frames, in the order received, whatever their
   command and destination are. *)
C30_EveryDecodedFrame ==
    DetectReturned => ret.value = SessionsOf(loc.read)

C30_Witness ==
    /\ DetectReturned /\ Len(loc.read) = 3
    /\ loc.read = <<OtherRequest, DetectReply(AddrA), SessionReply>>
    /\ ret.value = <<Inverter(OtherClient), Inverter(AddrA), Inverter(AddrB)>>

====
